---- MODULE Spec2Model ----
(***************************************************************************)
(* A model of the caption pipeline of yt_dlp_transcript: the identifier    *)
(* resolver (extract_video_id), the caption track selector                 *)
(* (get_video_info_and_transcript), the format picker                      *)
(* (download_and_parse_transcript), the secondary-language cleanup         *)
(* (clean_japanese_text), the paragraph builder / renderer                 *)
(* (transcript_to_markdown), the three payload decoders                    *)
(* (parse_json3_transcript, parse_vtt_transcript, parse_srv1_transcript)   *)
(* and the jobs of the HTTP service (extract_transcript,                   *)
(* process_transcript, get_status).                                        *)
(*                                                                         *)
(* Text is modelled as a sequence of characters; a character is a          *)
(* one-character string, and a character outside ASCII is named by its     *)
(* code point ("U3042").  Every component has a specification of its own   *)
(* (SpecResolve, SpecSelect, ...) over the shared variables; the variables *)
(* of the other components rest at their idle values.                      *)
(***************************************************************************)
EXTENDS Integers, Sequences, FiniteSets, TLC

----------------------------------------------------------------------------
(* Characters and strings *)

LowerLetters ==
    {"a", "b", "c", "d", "e", "f", "g", "h", "i", "j", "k", "l", "m",
     "n", "o", "p", "q", "r", "s", "t", "u", "v", "w", "x", "y", "z"}

UpperLetters ==
    {"A", "B", "C", "D", "E", "F", "G", "H", "I", "J", "K", "L", "M",
     "N", "O", "P", "Q", "R", "S", "T", "U", "V", "W", "X", "Y", "Z"}

Digits == {"0", "1", "2", "3", "4", "5", "6", "7", "8", "9"}

Letters == LowerLetters \cup UpperLetters

\* str.lower() on one character
LowerChar(c) ==
    IF c \in UpperLetters
    THEN ("A" :> "a" @@ "B" :> "b" @@ "C" :> "c" @@ "D" :> "d" @@ "E" :> "e"
          @@ "F" :> "f" @@ "G" :> "g" @@ "H" :> "h" @@ "I" :> "i" @@ "J" :> "j"
          @@ "K" :> "k" @@ "L" :> "l" @@ "M" :> "m" @@ "N" :> "n" @@ "O" :> "o"
          @@ "P" :> "p" @@ "Q" :> "q" @@ "R" :> "r" @@ "S" :> "s" @@ "T" :> "t"
          @@ "U" :> "u" @@ "V" :> "v" @@ "W" :> "w" @@ "X" :> "x" @@ "Y" :> "y"
          @@ "Z" :> "z")[c]
    ELSE c

\* str.lower()
Lower(s) == [i \in 1..Len(s) |-> LowerChar(s[i])]

\* s.startswith(p)
StartsWith(s, p) == Len(s) >= Len(p) /\ SubSeq(s, 1, Len(p)) = p

\* s.find(c, from) for a single character, 1-based; 0 when absent
IndexOf(s, c, from) ==
    IF \E i \in from..Len(s) : s[i] = c
    THEN CHOOSE i \in from..Len(s) : s[i] = c /\ \A j \in from..(i - 1) : s[j] # c
    ELSE 0

\* s.rfind(c) for a single character, 1-based; 0 when absent
LastIndexOf(s, c) ==
    IF \E i \in 1..Len(s) : s[i] = c
    THEN CHOOSE i \in 1..Len(s) : s[i] = c /\ \A j \in (i + 1)..Len(s) : s[j] # c
    ELSE 0

\* s[i:] with i 1-based
From(s, i) == SubSeq(s, i, Len(s))

\* s.split(c) for a single character separator
RECURSIVE Split(_, _)
Split(s, c) ==
    LET i == IndexOf(s, c, 1)
    IN  IF i = 0 THEN <<s>>
        ELSE <<SubSeq(s, 1, i - 1)>> \o Split(From(s, i + 1), c)

\* s.partition(c): <<before, after>>; after is empty when c is absent
Partition(s, c) ==
    LET i == IndexOf(s, c, 1)
    IN  IF i = 0 THEN <<s, <<>>>> ELSE <<SubSeq(s, 1, i - 1), From(s, i + 1)>>

\* s.rpartition(c)[2]
AfterLast(s, c) ==
    LET i == LastIndexOf(s, c) IN IF i = 0 THEN s ELSE From(s, i + 1)

----------------------------------------------------------------------------
(* urllib.parse, as far as extract_video_id uses it *)

\* _UNSAFE_URL_BYTES_TO_REMOVE
UnsafeUrlChars == {"\t", "\r", "\n"}

\* _WHATWG_C0_CONTROL_OR_SPACE, as far as the alphabet of the model goes
C0ControlOrSpace == {" ", "\t", "\r", "\n"}

RECURSIVE LStrip(_, _)
LStrip(s, chars) ==
    IF s # <<>> /\ Head(s) \in chars THEN LStrip(Tail(s), chars) ELSE s

RemoveChars(s, chars) == SelectSeq(s, LAMBDA c : c \notin chars)

\* scheme_chars
SchemeChars == Letters \cup Digits \cup {"+", "-", "."}

\* uses_params holds both schemes the resolver can produce
UsesParams == {<<"h", "t", "t", "p">>, <<"h", "t", "t", "p", "s">>}

\* the only bracketed hosts ipaddress accepts among the model's inputs
BracketedHostsAccepted == {<<":", ":", "1">>}

\* the printable ASCII characters, code 32 to 126, for percent-decoding
PrintableAscii ==
    <<
     " ", "!", "\"", "#", "$", "%", "&", "'", "(", ")", "*", "+",
         ",", "-", ".", "/", "0", "1", "2", "3", "4", "5", "6", "7",
         "8", "9", ":", ";", "<", "=", ">", "?", "@", "A", "B", "C",
         "D", "E", "F", "G", "H", "I", "J", "K", "L", "M", "N", "O",
         "P", "Q", "R", "S", "T", "U", "V", "W", "X", "Y", "Z", "[",
         "\\", "]", "^", "_", "U0060", "a", "b", "c", "d", "e", "f", "g",
         "h", "i", "j", "k", "l", "m", "n", "o", "p", "q", "r", "s",
         "t", "u", "v", "w", "x", "y", "z", "{", "|", "}", "~" >>

HexValue(c) ==
    CASE c \in Digits -> CHOOSE n \in 0..9 : <<"0", "1", "2", "3", "4", "5", "6", "7", "8", "9">>[n + 1] = c
      [] LowerChar(c) \in {"a", "b", "c", "d", "e", "f"} ->
            CHOOSE n \in 10..15 : <<"a", "b", "c", "d", "e", "f">>[n - 9] = LowerChar(c)
      [] OTHER -> -1

\* the character a decoded byte stands for; a byte that is no printable ASCII
\* character is named by the replacement character
CharOfByte(n) == IF n \in 32..126 THEN PrintableAscii[n - 31] ELSE "UFFFD"

\* urllib.parse.unquote: %XX becomes the character, anything else stays
RECURSIVE Unquote(_)
Unquote(s) ==
    IF s = <<>> THEN <<>>
    ELSE IF /\ Head(s) = "%"
            /\ Len(s) >= 3
            /\ HexValue(s[2]) >= 0
            /\ HexValue(s[3]) >= 0
         THEN <<CharOfByte(16 * HexValue(s[2]) + HexValue(s[3]))>> \o Unquote(From(s, 4))
         ELSE <<Head(s)>> \o Unquote(Tail(s))

\* value.replace(plus, space) then unquote
UnquotePlus(s) == Unquote([i \in 1..Len(s) |-> IF s[i] = "+" THEN " " ELSE s[i]])

\* urlsplit: the scheme, when the text before the first ':' is one
SchemeSplit(u) ==
    LET i == IndexOf(u, ":", 1)
    IN  IF i > 1 /\ u[1] \in Letters /\ \A k \in 1..(i - 1) : u[k] \in SchemeChars
        THEN [scheme |-> Lower(SubSeq(u, 1, i - 1)), rest |-> From(u, i + 1)]
        ELSE [scheme |-> <<>>, rest |-> u]

\* _splitnetloc(url, 2): the netloc ends at the first of / ? #
NetlocSplit(r) ==
    IF StartsWith(r, <<"/", "/">>)
    THEN LET ends == {k \in 3..Len(r) : r[k] \in {"/", "?", "#"}}
             e == IF ends = {} THEN Len(r) + 1
                  ELSE CHOOSE k \in ends : \A j \in ends : k <= j
         IN  [netloc |-> SubSeq(r, 3, e - 1), rest |-> From(r, e)]
    ELSE [netloc |-> <<>>, rest |-> r]

Contains(s, c) == IndexOf(s, c, 1) # 0

\* urlsplit raises ValueError on an unbalanced or invalid bracketed host
NetlocRaises(netloc) ==
    \/ Contains(netloc, "[") /\ ~Contains(netloc, "]")
    \/ Contains(netloc, "]") /\ ~Contains(netloc, "[")
    \/ /\ Contains(netloc, "[")
       /\ Contains(netloc, "]")
       /\ Partition(Partition(netloc, "[")[2], "]")[1] \notin BracketedHostsAccepted

\* _splitparams: the parameters of the last path segment
SplitParams(p) ==
    LET from == IF Contains(p, "/") THEN LastIndexOf(p, "/") ELSE 1
        i == IndexOf(p, ";", from)
    IN  IF i = 0 THEN p ELSE SubSeq(p, 1, i - 1)

\* urlparse(url): raised, scheme, netloc, path and query
UrlParse(u0) ==
    LET u == RemoveChars(LStrip(u0, C0ControlOrSpace), UnsafeUrlChars)
        sch == SchemeSplit(u)
        net == NetlocSplit(sch.rest)
        noFrag == Partition(net.rest, "#")[1]
        pq == Partition(noFrag, "?")
        path == IF sch.scheme \in UsesParams /\ Contains(pq[1], ";")
                THEN SplitParams(pq[1]) ELSE pq[1]
    IN  [raised |-> NetlocRaises(net.netloc),
         scheme |-> sch.scheme,
         netloc |-> net.netloc,
         path |-> path,
         query |-> pq[2]]

\* ParseResult.hostname: no userinfo, no port, lower case, None when empty
Hostname(netloc) ==
    LET hostinfo == AfterLast(netloc, "@")
        host == IF Contains(hostinfo, "[")
                THEN Partition(Partition(hostinfo, "[")[2], "]")[1]
                ELSE Partition(hostinfo, ":")[1]
        i == IndexOf(host, "%", 1)
    IN  IF i = 0 THEN Lower(host)
        ELSE Lower(SubSeq(host, 1, i - 1)) \o From(host, i)

\* parse_qsl: the (name, value) pairs, blank values dropped
RECURSIVE QueryPairs(_)
QueryPairs(fields) ==
    IF fields = <<>> THEN <<>>
    ELSE LET f == Head(fields)
             i == IndexOf(f, "=", 1)
         IN  IF i = 0 \/ i = Len(f)
             THEN QueryPairs(Tail(fields))
             ELSE <<[name |-> UnquotePlus(SubSeq(f, 1, i - 1)),
                     value |-> UnquotePlus(From(f, i + 1))]>>
                  \o QueryPairs(Tail(fields))

ParseQsl(query) == IF query = <<>> THEN <<>> ELSE QueryPairs(Split(query, "&"))

----------------------------------------------------------------------------
(* extract_video_id *)

\* the length the identifier pattern fixes
IdLen == 11

\* [a-zA-Z0-9_-]
IdChars == Letters \cup Digits \cup {"_", "-"}

\* \w on ASCII text
WordChars == Letters \cup Digits \cup {"_"}

\* what a call returns: None, a string, or an exception raised
None == [tag |-> "None", val |-> <<>>]
Str(s) == [tag |-> "str", val |-> s]
Raise(e) == [tag |-> "raise", val |-> e]
NotReturned == [tag |-> "pending", val |-> <<>>]

\* IsVideoIdToken with the pattern narrowed to [a-zA-Z0-9]
IsVideoIdTokenAlnum(s) ==
    Len(s) = IdLen /\ \A i \in 1..IdLen : s[i] \in Letters \cup Digits

\* re.match(r'^[a-zA-Z0-9_-]{11}$', url): $ also matches before a final newline
IsVideoIdToken(s) ==
    LET body == IF Len(s) = IdLen + 1 /\ s[Len(s)] = "\n"
                THEN SubSeq(s, 1, IdLen) ELSE s
    IN  Len(body) = IdLen /\ \A i \in 1..IdLen : body[i] \in IdChars

\* re.match(r'http(s)?://', url)
HasHttpScheme(s) == StartsWith(s, <<"h", "t", "t", "p", ":", "/", "/">>) \/ StartsWith(s, <<"h", "t", "t", "p", "s", ":", "/", "/">>)

HostPrefixes == {<<>>, <<"w", "w", "w", ".">>, <<"m", ".">>, <<"m", "u", "s", "i", "c", ".">>}

\* re.match(r'(?:www\.|m\.|music\.)?youtube\.co(m|\.uk|\.jp|\.de|.\w{2})|youtu\.be', hostname):
\* a match of a prefix of the hostname; the last alternative of the group is
\* any character but a newline followed by two word characters
HostPatternMatches(h) ==
    \/ \E p \in HostPrefixes :
          LET stem == p \o <<"y", "o", "u", "t", "u", "b", "e", ".", "c", "o">>
              n == Len(stem)
          IN  /\ StartsWith(h, stem)
              /\ \/ \E t \in {<<"m">>, <<".", "u", "k">>, <<".", "j", "p">>, <<".", "d", "e">>} : StartsWith(From(h, n + 1), t)
                 \/ /\ Len(h) >= n + 3
                    /\ h[n + 1] # "\n"
                    /\ h[n + 2] \in WordChars
                    /\ h[n + 3] \in WordChars
    \/ StartsWith(h, <<"y", "o", "u", "t", "u", ".", "b", "e">>)

\* query_params.get('v', [None])[0]
FirstV(query) ==
    LET vs == SelectSeq(ParseQsl(query), LAMBDA nv : nv.name = <<"v">>)
    IN  IF vs = <<>> THEN None ELSE Str(vs[1].value)

\* AlternateEndpoints without the live endpoint
AlternateEndpointsNoLive == {<<"e", "m", "b", "e", "d">>, <<"s", "h", "o", "r", "t", "s">>, <<"v">>}

AlternateEndpoints == {<<"e", "m", "b", "e", "d">>, <<"s", "h", "o", "r", "t", "s">>, <<"l", "i", "v", "e">>, <<"v">>}

extract_video_id(u) ==
    IF u = <<>> THEN None
    ELSE IF IsVideoIdToken(u) THEN Str(u)
    ELSE
      LET full == IF HasHttpScheme(u) THEN u ELSE <<"h", "t", "t", "p", ":", "/", "/">> \o u
          parsed_url == UrlParse(full)
          hostname == Hostname(parsed_url.netloc)
          path_parts == Split(parsed_url.path, "/")
      IN  IF parsed_url.raised THEN Raise("ValueError")
          ELSE IF hostname = <<>> \/ ~HostPatternMatches(hostname) THEN None
          ELSE IF parsed_url.path = <<"/", "w", "a", "t", "c", "h">> THEN FirstV(parsed_url.query)
          ELSE IF hostname = <<"y", "o", "u", "t", "u", ".", "b", "e">>
               THEN IF Len(path_parts) < 2 THEN Raise("IndexError")
                    ELSE Str(Split(path_parts[2], "?")[1])
          ELSE IF Len(path_parts) > 2 /\ path_parts[2] \in AlternateEndpoints
               THEN Str(Split(path_parts[3], "?")[1])
          ELSE None

----------------------------------------------------------------------------
(* The inputs of the resolver *)

Ids == {<<"d", "Q", "w", "4", "w", "9", "W", "g", "X", "c", "Q">>, <<"o", "-", "Y", "B", "D", "T", "q", "X", "_", "Z", "U">>, <<"s", "o", "m", "e", "_", "l", "i", "v", "e", "_", "i", "d">>, <<"a", "b", "c">>}

Schemes == {<<>>, <<"h", "t", "t", "p", ":", "/", "/">>, <<"h", "t", "t", "p", "s", ":", "/", "/">>}

\* hosts of the platform's domain family
FamilyHosts ==
    {<<"y", "o", "u", "t", "u", "b", "e", ".", "c", "o", "m">>, <<"w", "w", "w", ".", "y", "o", "u", "t", "u", "b", "e", ".", "c", "o", "m">>, <<"m", ".", "y", "o", "u", "t", "u", "b", "e", ".", "c", "o", "m">>, <<"m", "u", "s", "i", "c", ".", "y", "o", "u", "t", "u", "b", "e", ".", "c", "o", "m">>,
     <<"w", "w", "w", ".", "y", "o", "u", "t", "u", "b", "e", ".", "c", "o", ".", "u", "k">>, <<"y", "o", "u", "t", "u", "b", "e", ".", "c", "o", ".", "j", "p">>, <<"y", "o", "u", "t", "u", ".", "b", "e">>, <<"W", "W", "W", ".", "Y", "o", "u", "T", "u", "b", "e", ".", "c", "o", "m">>,
     <<"w", "w", "w", ".", "y", "o", "u", "t", "u", "b", "e", ".", "c", "o", "m", ":", "4", "4", "3">>}

\* hosts outside it
ForeignHosts ==
    {<<"w", "w", "w", ".", "g", "o", "o", "g", "l", "e", ".", "c", "o", "m">>, <<"e", "v", "i", "l", ".", "c", "o", "m">>, <<"n", "o", "t", " ", "a", " ", "u", "r", "l">>, <<"x", "y", "o", "u", "t", "u", "b", "e", ".", "c", "o", "m">>,
     <<"y", "o", "u", "t", "u", "b", "e", ".", "c", "o", "m", ".", "e", "v", "i", "l", ".", "o", "r", "g">>, <<"y", "o", "u", "t", "u", ".", "b", "e", "x", "y", "z", ".", "c", "o", "m">>, <<"y", "o", "u", "t", "u", "b", "e", ".", "c", "o", "m", "@", "e", "v", "i", "l", ".", "c", "o", "m">>,
     <<"y", "o", "u", "t", "u", "b", "e", ".", "o", "r", "g">>, <<"[", "y", "o", "u", "t", "u", "b", "e", ".", "c", "o", "m">>}

Hosts == FamilyHosts \cup ForeignHosts

Paths(id) ==
    {<<>>, <<"/">>, <<"/", "w", "a", "t", "c", "h">>, <<"/", "w", "a", "t", "c", "h", "/">>, <<"/">> \o id,
     <<"/", "e", "m", "b", "e", "d", "/">> \o id, <<"/", "s", "h", "o", "r", "t", "s", "/">> \o id, <<"/", "l", "i", "v", "e", "/">> \o id, <<"/", "v", "/">> \o id,
     <<"/", "e", "m", "b", "e", "d", "/">>, <<"/", "e", "m", "b", "e", "d">>, <<"/", "c", "h", "a", "n", "n", "e", "l", "/", "U", "C", "-", "l", "H", "J", "Z", "R", "3", "G", "q", "x", "m", "2", "4", "_", "V", "d", "_", "A", "J", "5", "Y", "w">>,
     <<"/", "e", "m", "b", "e", "d", "/">> \o id \o <<"/", "e", "x", "t", "r", "a">>, <<"/", "s", "h", "o", "r", "t", "s", "/">> \o id \o <<";", "p">>}

Queries(id) ==
    {<<>>, <<"?", "v", "=">> \o id, <<"?", "v", "=">> \o id \o <<"&", "l", "i", "s", "t", "=", "W", "L", "&", "i", "n", "d", "e", "x", "=", "1">>,
     <<"?", "v", "=">> \o id \o <<"&", "l", "i", "s", "t", "=", ".", ".", ".">>, <<"?", "l", "i", "s", "t", "=", "W", "L", "&", "v", "=">> \o id,
     <<"?", "s", "i", "=", "a", "b", "c", "d", "e", "1", "2", "3", "4", "5">>, <<"?", "f", "e", "a", "t", "u", "r", "e", "=", "s", "h", "a", "r", "e">>, <<"?", "v", "=">>, <<"?", "v", "v", "=">> \o id,
     <<"?", "v", "=">> \o id \o <<"#", "t", "=", "1">>, <<"?", "v", "=", "d", "Q", "w", "4", "w", "9", "W", "g", "X", "c", "%", "5", "1">>, <<"?", "v", "=", "a", "+", "b">>}

UrlInputs ==
    {s \o h \o p \o q : s \in Schemes, h \in Hosts,
                        p \in UNION {Paths(id) : id \in Ids},
                        q \in UNION {Queries(id) : id \in Ids}}

\* s with its k-th character replaced by c
ReplaceAt(s, k, c) == [i \in 1..Len(s) |-> IF i = k THEN c ELSE s[i]]

\* bare arguments: identifiers, and strings one character away from one
BareInputs ==
    Ids
    \cup {ReplaceAt(<<"d", "Q", "w", "4", "w", "9", "W", "g", "X", "c", "Q">>, k, c) :
              k \in 1..IdLen, c \in {"a", "Z", "0", "_", "-", ".", "/", " ", "=", "\n"}}
    \cup {<<"d", "Q", "w", "4", "w", "9", "W", "g", "X", "c", "Q", "\n">>, <<"d", "Q", "w", "4", "w", "9", "W", "g", "X", "c">>, <<"d", "Q", "w", "4", "w", "9", "W", "g", "X", "c", "Q", "Q">>, <<"y", "o", "u", "t", "u", ".", "b", "e", "/", "a", "b">>,
          <<>>, <<"n", "o", "t", " ", "a", " ", "u", "r", "l">>}

ResolveInputs == BareInputs \cup UrlInputs


----------------------------------------------------------------------------
(* detect_video_language *)

\* s occurs in t as a substring
IsSubstring(s, t) ==
    \E i \in 1..(Len(t) - Len(s) + 1) : SubSeq(t, i, i + Len(s) - 1) = s

\* japanese_indicators: wo, ha, ga, ni, de, to, no, desu, masu, shita, suru,
\* aru, iru
JapaneseIndicators ==
    {<<"U3092">>, <<"U306F">>, <<"U304C">>, <<"U306B">>, <<"U3067">>, <<"U3068">>,
     <<"U306E">>, <<"U3067", "U3059">>, <<"U307E", "U3059">>, <<"U3057", "U305F">>,
     <<"U3059", "U308B">>, <<"U3042", "U308B">>, <<"U3044", "U308B">>}

detect_video_language(t, d) ==
    LET text == Lower(t \o <<" ">> \o d)
    IN  IF \E indicator \in JapaneseIndicators : IsSubstring(indicator, text)
        THEN "ja" ELSE "en"

----------------------------------------------------------------------------
(* get_video_info_and_transcript: the choice of the caption track *)

\* a dict is the sequence of its items in iteration order, the keys distinct
HasKey(m, k) == \E i \in 1..Len(m) : m[i].lang = k
Get(m, k) == m[CHOOSE i \in 1..Len(m) : m[i].lang = k].formats

\* Python truth of a list
Truthy(x) == x.tag = "list" /\ x.val # <<>>
List(x) == [tag |-> "list", val |-> x]

PreferredJa == <<"ja", "ja-JP", "en", "en-US", "en-GB">>
PreferredEn == <<"en", "en-US", "en-GB", "ja", "ja-JP">>

preferred_languages(detected_language) ==
    IF detected_language = "ja" THEN PreferredJa ELSE PreferredEn

\* the first code of prefs that is a key of m, 0 when none is
FirstPreferred(m, prefs) ==
    IF \E i \in 1..Len(prefs) : HasKey(m, prefs[i])
    THEN CHOOSE i \in 1..Len(prefs) :
            HasKey(m, prefs[i]) /\ \A j \in 1..(i - 1) : ~HasKey(m, prefs[j])
    ELSE 0

\* the walk over the manual subtitles: (transcript_data, transcript_type)
ManualWalk(subs, prefs) ==
    LET i == FirstPreferred(subs, prefs)
    IN  IF i = 0 THEN [data |-> None, type |-> <<"None">>]
        ELSE [data |-> List(Get(subs, prefs[i])), type |-> <<"Manual", prefs[i]>>]

\* the walk over the automatic captions, taken when nothing true is chosen yet
AutoWalk(chosen, auto, prefs) ==
    LET i == FirstPreferred(auto, prefs)
    IN  IF Truthy(chosen.data) \/ i = 0 THEN chosen
        ELSE [data |-> List(Get(auto, prefs[i])),
              type |-> <<"Auto-generated", prefs[i]>>]

\* any available language, taken when nothing true is chosen yet
AnyLanguage(chosen, subs, auto) ==
    IF Truthy(chosen.data) THEN chosen
    ELSE IF subs # <<>>
         THEN [data |-> List(subs[1].formats), type |-> <<"Manual", subs[1].lang>>]
    ELSE IF auto # <<>>
         THEN [data |-> List(auto[1].formats),
               type |-> <<"Auto-generated", auto[1].lang>>]
    ELSE chosen

\* the track the selector settles on, before the final truth test
ChooseTrack(detected_language, subs, auto) ==
    LET prefs == preferred_languages(detected_language)
    IN  AnyLanguage(AutoWalk(ManualWalk(subs, prefs), auto, prefs), subs, auto)

----------------------------------------------------------------------------
(* The inputs of the selector *)

\* the most caption tracks a video offers, manual and automatic together
MaxTracks == 2

Langs == {"ja", "ja-JP", "en", "en-US", "en-GB", "fr", "de"}

\* the sequences over S of length at most n without a repeated element
DistinctSeqs(S, n) ==
    {s \in UNION {[1..k -> S] : k \in 0..n} :
        \A i, j \in 1..Len(s) : i # j => s[i] # s[j]}

\* the variant list of a track: empty, or one variant whose locator names it
Formats(kind, lang, empty) ==
    IF empty THEN <<>> ELSE <<[ext |-> "json3", url |-> <<kind, lang>>]>>

\* the mappings of at most n tracks
Mappings(kind, n) ==
    UNION {{[i \in 1..Len(ks) |-> [lang |-> ks[i], formats |-> Formats(kind, ks[i], e[i])]] :
                e \in [1..Len(ks) -> BOOLEAN]} :
           ks \in DistinctSeqs(Langs, n)}

\* neko no douga; tesuto (katakana only); an English title
Titles == {<<"U732B", "U306E", "U52D5", "U753B">>, <<"U30C6", "U30B9", "U30C8">>, <<"C", "a", "t", " ", "V", "i", "d", "e", "o">>}

\* no description; kore ha neko desu
Descriptions == {<<>>, <<"U3053", "U308C", "U306F", "U732B", "U3067", "U3059">>}

----------------------------------------------------------------------------
(* download_and_parse_transcript: the choice of the format *)

\* no variant chosen (best_format = None)
NoFormat == [ext |-> "None", url |-> 0]

\* the loop over the variant list: json3 ends it, vtt and srv1 are taken
\* only while nothing is chosen
RECURSIVE BestFormat(_, _)
BestFormat(items, best) ==
    IF items = <<>> THEN best
    ELSE LET item == Head(items)
         IN  IF item.ext = "json3" THEN item
             ELSE IF item.ext = "vtt" /\ best = NoFormat
                  THEN BestFormat(Tail(items), item)
             ELSE IF item.ext = "srv1" /\ best = NoFormat
                  THEN BestFormat(Tail(items), item)
             ELSE BestFormat(Tail(items), best)

\* the decoder the fetched payload is handed to
DecoderFor(ext) ==
    IF ext = "json3" THEN "parse_json3_transcript"
    ELSE IF ext = "vtt" THEN "parse_vtt_transcript"
    ELSE "parse_srv1_transcript"

----------------------------------------------------------------------------
(* The inputs of the format choice *)

\* the most variants a track lists
MaxVariants == 3

\* format tags; the empty tag stands for a variant without an ext entry
Exts == {"json3", "vtt", "srv1", "srv3", "ttml", ""}

\* a variant list: the locator of a variant is its place in the list
VariantLists ==
    UNION {{[i \in 1..k |-> [ext |-> e[i], url |-> i]] : e \in [1..k -> Exts]} :
           k \in 0..MaxVariants}

\* what a decoder makes of a fetched payload: a cue list, or None when the
\* payload is malformed
Decoded == {None, List(<<>>), List(<<"cue">>)}

----------------------------------------------------------------------------
(* format_timestamp *)

DigitChars == <<"0", "1", "2", "3", "4", "5", "6", "7", "8", "9">>

\* str(n) for n >= 0
RECURSIVE IntToStr(_)
IntToStr(n) ==
    IF n < 10 THEN <<DigitChars[n + 1]>>
    ELSE IntToStr(n \div 10) \o <<DigitChars[(n % 10) + 1]>>

\* "%02d" % n
TwoDigits(n) == IF n < 10 THEN <<"0">> \o IntToStr(n) ELSE IntToStr(n)

\* str(timedelta(seconds=int(seconds))), the time given in milliseconds:
\* whole days are split off and written in front of H:MM:SS
format_timestamp(ms) ==
    LET secs == ms \div 1000
        days == secs \div 86400
        rest == secs % 86400
        hms == IntToStr(rest \div 3600) \o <<":">> \o TwoDigits((rest % 3600) \div 60)
               \o <<":">> \o TwoDigits(rest % 60)
    IN  IF days = 0 THEN hms
        ELSE IntToStr(days) \o (IF days = 1 THEN <<" ", "d", "a", "y", ",", " ">> ELSE <<" ", "d", "a", "y", "s", ",", " ">>) \o hms

----------------------------------------------------------------------------
(* clean_japanese_text *)

\* the code points of the characters outside ASCII that the model writes
CodePoint ==
    ("U3000" :> 12288 @@ "U3002" :> 12290 @@ "U3042" :> 12354 @@ "U3044" :> 12356
     @@ "U3046" :> 12358 @@ "U3053" :> 12371 @@ "U3059" :> 12377 @@ "U3067" :> 12391
     @@ "U306E" :> 12398 @@ "U306F" :> 12399 @@ "U308C" :> 12428 @@ "U30C6" :> 12486
     @@ "U30B9" :> 12473 @@ "U30C8" :> 12488 @@ "U732B" :> 29483 @@ "U52D5" :> 21205
     @@ "U753B" :> 30011 @@ "U97F3" :> 38899 @@ "U697D" :> 26965 @@ "U62CD" :> 25293
     @@ "U624B" :> 25163 @@ "U7B11" :> 31505 @@ "U97FF" :> 38911 @@ "U52B9" :> 21177
     @@ "U679C" :> 26524 @@ "U2669" :> 9833 @@ "U266A" :> 9834 @@ "U266B" :> 9835
     @@ "U266C" :> 9836 @@ "UFF01" :> 65281 @@ "UFF1F" :> 65311 @@ "UFFFD" :> 65533)

\* ord(c); the ASCII characters all lie below the ranges asked about
Ord(c) == IF c \in DOMAIN CodePoint THEN CodePoint[c] ELSE 0

\* [぀-ゟ゠-ヿ一-龯]: hiragana, katakana, ideographs
IsJapaneseChar(c) ==
    \/ Ord(c) \in 12352..12447
    \/ Ord(c) \in 12448..12543
    \/ Ord(c) \in 19968..40879

\* \s, and what str.strip() strips
Whitespace == {" ", "\t", "\n", "\r", "U3000"}

\* music_tags, in the order they are removed
MusicTags ==
    <<<<"[", "U97F3", "U697D", "]">>, <<"U266A">>, <<"U266B">>, <<"U266C">>, <<"U2669">>,
      <<"[", "U62CD", "U624B", "]">>, <<"[", "U7B11", "U3044", "]">>, <<"[", "U7B11", "]">>,
      <<"[", "U97F3", "U97FF", "U52B9", "U679C", "]">>, <<"[", "U52B9", "U679C", "U97F3", "]">>>>

\* the least element of a non-empty set of numbers
Least(S) == CHOOSE i \in S : \A j \in S : i <= j

\* text.replace(tag, ''): the occurrences are taken from the left and do not
\* overlap
RECURSIVE RemoveAll(_, _)
RemoveAll(s, tag) ==
    LET found == {i \in 1..(Len(s) - Len(tag) + 1) :
                     s[i] = tag[1] /\ SubSeq(s, i, i + Len(tag) - 1) = tag}
    IN  IF found = {} THEN s
        ELSE SubSeq(s, 1, Least(found) - 1)
             \o RemoveAll(From(s, Least(found) + Len(tag)), tag)

\* the loop over music_tags
RECURSIVE RemoveTags(_, _)
RemoveTags(s, tags) ==
    IF tags = <<>> THEN s ELSE RemoveTags(RemoveAll(s, Head(tags)), Tail(tags))

\* the length of the run of whitespace that starts at place k of s
RECURSIVE SpaceRun(_, _)
SpaceRun(s, k) ==
    IF k <= Len(s) /\ s[k] \in Whitespace THEN 1 + SpaceRun(s, k + 1) ELSE 0

\* re.sub('(J)\s+(J)', r'\1\2', text): the matches are taken from the left and
\* do not overlap, so the second character of a match opens no further match
RECURSIVE JoinJapanese(_)
JoinJapanese(s) ==
    LET found == {i \in 1..(Len(s) - 2) :
                     /\ IsJapaneseChar(s[i])
                     /\ s[i + 1] \in Whitespace
                     /\ i + 1 + SpaceRun(s, i + 1) <= Len(s)
                     /\ IsJapaneseChar(s[i + 1 + SpaceRun(s, i + 1)])}
    IN  IF found = {} THEN s
        ELSE LET i == Least(found)
                 j == i + 1 + SpaceRun(s, i + 1)
             IN  SubSeq(s, 1, i) \o <<s[j]>> \o JoinJapanese(From(s, j + 1))

\* re.sub(r'\s+', ' ', text)
RECURSIVE CollapseSpaces(_)
CollapseSpaces(s) ==
    LET found == {i \in 1..Len(s) : s[i] \in Whitespace}
    IN  IF found = {} THEN s
        ELSE LET i == Least(found)
             IN  SubSeq(s, 1, i - 1) \o <<" ">>
                 \o CollapseSpaces(From(s, i + SpaceRun(s, i)))

\* str.strip()
RECURSIVE RStrip(_)
RStrip(s) ==
    IF s # <<>> /\ s[Len(s)] \in Whitespace THEN RStrip(SubSeq(s, 1, Len(s) - 1)) ELSE s

Strip(s) == RStrip(LStrip(s, Whitespace))

clean_japanese_text(text) ==
    Strip(CollapseSpaces(JoinJapanese(RemoveTags(text, MusicTags))))

----------------------------------------------------------------------------
(* transcript_to_markdown *)

\* current_start_time = None
NoTime == -1

\* the accumulator length above which a paragraph is closed
ParagraphLimit == 500

\* text.endswith(('.', '!', '?', ideographic full stop, fullwidth ! and ?))
SentenceEnds == {".", "!", "?", "U3002", "UFF01", "UFF1F"}

EndsSentence(t) == t # <<>> /\ t[Len(t)] \in SentenceEnds

\* one line of the document: its kind, its timestamp (empty without one), its text
Line(kind, stamp, t) == [kind |-> kind, stamp |-> stamp, text |-> t]

\* the heading, the identifier, the URL and the rule
Header(info) ==
    <<Line("title", <<>>, info.title),
      Line("video_id", <<>>, info.id),
      Line("url", <<>>, <<"h", "t", "t", "p", "s", ":", "/", "/", "w", "w", "w", ".", "y", "o", "u", "t", "u", "b", "e", ".", "c", "o", "m", "/", "w", "a", "t", "c", "h", "?", "v", "=">> \o info.id),
      Line("rule", <<>>, <<"-", "-", "-">>)>>

NoTranscriptLine == Line("marker", <<>>, <<"*", "N", "o", " ", "t", "r", "a", "n", "s", "c", "r", "i", "p", "t", " ", "a", "v", "a", "i", "l", "a", "b", "l", "e", " ", "f", "o", "r", " ", "t", "h", "i", "s", " ", "v", "i", "d", "e", "o", ".", "*">>)

\* the text of a cue as it is accumulated; empty when the cue is skipped
CueText(cue, japanese) ==
    LET t == Strip(cue.text)
    IN  IF t = <<>> THEN <<>>
        ELSE IF japanese THEN clean_japanese_text(t) ELSE t

\* the anchor taken from the cue that is appended, whatever anchor is set
AnchorOfLatestCue(current, cue) == cue.start

\* current_start_time once a cue is appended: set only when none is set
Anchor(current, cue) == IF current = NoTime THEN cue.start ELSE current

\* final_text of a paragraph
FinalText(paragraph, japanese) ==
    IF japanese THEN clean_japanese_text(Strip(paragraph)) ELSE Strip(paragraph)

\* the paragraph line written when the loop closes a paragraph
ClosedParagraph(stamps, start, paragraph, japanese) ==
    Line("para", IF stamps THEN format_timestamp(start) ELSE <<>>,
         FinalText(paragraph, japanese))

\* ClosesParagraph with the limit reached rather than exceeded
ClosesParagraphAtLimit(t, paragraph) ==
    (t # <<>> /\ t[Len(t)] \in {".", "!", "?", "U3002", "UFF01", "UFF1F"})
    \/ Len(paragraph) >= 500

\* the test that closes a paragraph after a cue is appended
ClosesParagraph(t, paragraph) == EndsSentence(t) \/ Len(paragraph) > ParagraphLimit

\* the lines the remaining text adds after the loop
Remaining(stamps, start, paragraph, japanese) ==
    IF Strip(paragraph) = <<>> \/ FinalText(paragraph, japanese) = <<>> THEN <<>>
    ELSE <<Line("para",
                IF stamps /\ start # NoTime THEN format_timestamp(start) ELSE <<>>,
                FinalText(paragraph, japanese))>>

----------------------------------------------------------------------------
(* The inputs of the cleanup and of the renderer *)

\* the longest text cleaned, in characters and in pieces
MaxTextLen == 5
MaxPieces == 3

\* the most cues of a transcript
MaxCues == 2

\* a, ideograph neko, a Latin letter, a space, an ideographic space
CleanAlphabet == {"U3042", "U732B", "a", " ", "U3000"}

\* the tags, halves of tags and single characters texts are put together from
Pieces ==
    {MusicTags[i] : i \in 1..Len(MusicTags)}
    \cup {<<"[", "U97F3">>, <<"U697D", "]">>, <<"[", "U7B11">>, <<"U3044", "]">>, <<"U3042">>, <<" ">>,
          <<"a">>, <<"U3002">>}

RECURSIVE Concat(_)
Concat(ss) == IF ss = <<>> THEN <<>> ELSE Head(ss) \o Concat(Tail(ss))

CleanInputs ==
    UNION {[1..n -> CleanAlphabet] : n \in 0..MaxTextLen}
    \cup {Concat(ps) : ps \in UNION {[1..n -> Pieces] : n \in 0..MaxPieces}}

Repeat(c, n) == [i \in 1..n |-> c]

\* five music tags, each split by a tag that the loop over music_tags removes
\* later than the split one, written often enough that the cleaned text alone
\* reaches the paragraph limit
SplitTags ==
    Concat(Repeat(<<"[", "U97F3", "U266A", "U697D", "]">>
                  \o <<"[", "U62CD", "[", "U7B11", "U3044", "]", "U624B", "]">>
                  \o <<"[", "U7B11", "[", "U7B11", "]", "U3044", "]">>
                  \o <<"[", "[", "U97F3", "U97FF", "U52B9", "U679C", "]", "U7B11", "]">>
                  \o <<"[", "U97F3", "U97FF", "[", "U52B9", "U679C", "U97F3", "]", "U52B9", "U679C", "]">>,
                  ParagraphLimit \div 21 + 1))

\* cue texts: the three of the documented example, a blank one, two around
\* the paragraph limit, a music tag, and a i followed by a full stop
CueTexts ==
    {<<"H", "e", "l", "l", "o", " ">>, <<"w", "o", "r", "l", "d", ".", " ">>,
     <<"N", "e", "x", "t", " ", "s", "e", "n", "t", "e", "n", "c", "e", ".">>, <<" ", " ">>,
     Repeat("x", ParagraphLimit - 1), Repeat("x", ParagraphLimit),
     <<"[", "U97F3", "U697D", "]">>, <<"U3042", " ", "U3044", "U3002">>}

\* the start of the cue at each place, in milliseconds
CueStarts == <<1000, 3725500, 86400000, 90061000, 90062000, 90063000>>

\* the cues of the documented example
ExampleTexts ==
    <<<<"H", "e", "l", "l", "o", " ">>, <<"w", "o", "r", "l", "d", ".", " ">>,
      <<"N", "e", "x", "t", " ", "s", "e", "n", "t", "e", "n", "c", "e", ".">>>>

\* a blank cue and two cues that make one sentence
SkippedThenMerged ==
    <<<<" ", " ">>, <<"H", "e", "l", "l", "o", " ">>, <<"w", "o", "r", "l", "d", ".", " ">>>>

\* the transcript of the given cue texts
TranscriptOf(ts) == [i \in 1..Len(ts) |-> [text |-> ts[i], start |-> CueStarts[i]]]

Transcripts ==
    {TranscriptOf(ts) : ts \in UNION {[1..n -> CueTexts] : n \in 0..MaxCues}}
    \cup {TranscriptOf(ExampleTexts), TranscriptOf(SkippedThenMerged),
          TranscriptOf(<<SplitTags>>)}

VideoInfos ==
    {[title |-> <<"U732B", "U306E", "U52D5", "U753B">>, id |-> <<"d", "Q", "w", "4", "w", "9", "W", "g", "X", "c", "Q">>],
     [title |-> <<"C", "a", "t", " ", "V", "i", "d", "e", "o">>, id |-> <<"d", "Q", "w", "4", "w", "9", "W", "g", "X", "c", "Q">>]}

----------------------------------------------------------------------------
(* vtt_time_to_seconds *)

DigitValue ==
    ("0" :> 0 @@ "1" :> 1 @@ "2" :> 2 @@ "3" :> 3 @@ "4" :> 4
     @@ "5" :> 5 @@ "6" :> 6 @@ "7" :> 7 @@ "8" :> 8 @@ "9" :> 9)

\* the value of a run of decimal digits
RECURSIVE DigitsValue(_)
DigitsValue(s) ==
    IF s = <<>> THEN 0
    ELSE 10 * DigitsValue(SubSeq(s, 1, Len(s) - 1)) + DigitValue[s[Len(s)]]

\* a number a conversion produced, and the ValueError of one that failed
Num(n) == [tag |-> "num", val |-> <<n>>]
ValueError == Raise("ValueError")

\* int(s) for a string: surrounding whitespace is dropped, a sign may lead,
\* the rest is decimal digits, single underscores allowed between them
ParseInt(s) ==
    LET t == Strip(s)
        signed == t # <<>> /\ Head(t) \in {"+", "-"}
        body == IF signed THEN Tail(t) ELSE t
        digits == SelectSeq(body, LAMBDA c : c # "_")
        wellFormed ==
            /\ body # <<>>
            /\ \A i \in 1..Len(body) : body[i] \in Digits \cup {"_"}
            /\ body[1] # "_" /\ body[Len(body)] # "_"
            /\ \A i \in 1..(Len(body) - 1) : ~(body[i] = "_" /\ body[i + 1] = "_")
    IN  IF ~wellFormed THEN ValueError
        ELSE Num(IF signed /\ Head(t) = "-" THEN 0 - DigitsValue(digits)
                 ELSE DigitsValue(digits))

\* the hours of H:MM:SS counted as minutes
vtt_time_to_secondsHoursAsMinutes(time_str) ==
    LET parts == Split(Split(time_str, ".")[1], ":")
        n(i) == ParseInt(parts[i])
    IN  IF Len(parts) = 3
        THEN IF n(1).tag = "num" /\ n(2).tag = "num" /\ n(3).tag = "num"
             THEN n(1).val[1] * 60 + n(2).val[1] * 60 + n(3).val[1]
             ELSE 0
        ELSE IF Len(parts) = 2
        THEN IF n(1).tag = "num" /\ n(2).tag = "num"
             THEN n(1).val[1] * 60 + n(2).val[1]
             ELSE 0
        ELSE IF n(1).tag = "num" THEN n(1).val[1] ELSE 0

\* time_str.split('.')[0].split(':'), then the whole seconds of the parts;
\* every exception gives 0
vtt_time_to_seconds(time_str) ==
    LET parts == Split(Split(time_str, ".")[1], ":")
        n(i) == ParseInt(parts[i])
    IN  IF Len(parts) = 3
        THEN IF n(1).tag = "num" /\ n(2).tag = "num" /\ n(3).tag = "num"
             THEN n(1).val[1] * 3600 + n(2).val[1] * 60 + n(3).val[1]
             ELSE 0
        ELSE IF Len(parts) = 2
        THEN IF n(1).tag = "num" /\ n(2).tag = "num"
             THEN n(1).val[1] * 60 + n(2).val[1]
             ELSE 0
        ELSE IF n(1).tag = "num" THEN n(1).val[1] ELSE 0

----------------------------------------------------------------------------
(* The cues the decoders return.  Times are kept in milliseconds: start     *)
(* 1.0 is 1000.                                                             *)

Cue(t, start, duration) == [text |-> t, start |-> start, duration |-> duration]

----------------------------------------------------------------------------
(* parse_vtt_transcript *)

Arrow == <<"-", "-", ">">>
SpacedArrow == <<" ", "-", "-", ">", " ">>

\* line.split(' --> ')[0]
BeforeSeparator(line, sep) ==
    LET found == {i \in 1..(Len(line) - Len(sep) + 1) :
                     SubSeq(line, i, i + Len(sep) - 1) = sep}
    IN  IF found = {} THEN line ELSE SubSeq(line, 1, Least(found) - 1)

\* ' '.join(parts)
RECURSIVE JoinWithSpace(_)
JoinWithSpace(parts) ==
    IF parts = <<>> THEN <<>>
    ELSE IF Len(parts) = 1 THEN parts[1]
    ELSE parts[1] \o <<" ">> \o JoinWithSpace(Tail(parts))

\* re.sub(r'<[^>]+>', '', text): from the left, a < followed by at least one
\* character other than > and then a > is removed with everything between
RECURSIVE StripVttTags(_)
StripVttTags(s) ==
    LET opens == {i \in 1..(Len(s) - 2) :
                     /\ s[i] = "<"
                     /\ s[i + 1] # ">"
                     /\ \E j \in (i + 2)..Len(s) : s[j] = ">"}
    IN  IF opens = {} THEN s
        ELSE LET i == Least(opens)
                 j == Least({k \in (i + 2)..Len(s) : s[k] = ">"})
             IN  SubSeq(s, 1, i - 1) \o StripVttTags(From(s, j + 1))

\* the inner loop: the place of the first line at or after i that is blank
\* once stripped, or one past the last line
RECURSIVE EndOfCueText(_, _)
EndOfCueText(lines, i) ==
    IF i <= Len(lines) /\ Strip(lines[i]) # <<>> THEN EndOfCueText(lines, i + 1)
    ELSE i

\* the value of i after the pass of the outer loop that starts at line i
AfterPass(lines, i) ==
    IF IsSubstring(Arrow, Strip(lines[i])) THEN EndOfCueText(lines, i + 1) + 1
    ELSE i + 1

\* the outer loop from line i on, with the cues found so far
RECURSIVE VttScan(_, _, _)
VttScan(lines, i, found) ==
    IF i > Len(lines) THEN found
    ELSE LET line == Strip(lines[i])
         IN  IF IsSubstring(Arrow, line)
             THEN LET start_time == vtt_time_to_seconds(BeforeSeparator(line, SpacedArrow))
                      end == EndOfCueText(lines, i + 1)
                      text_parts == [k \in 1..(end - i - 1) |-> Strip(lines[i + k])]
                      t == StripVttTags(JoinWithSpace(text_parts))
                  IN  VttScan(lines, AfterPass(lines, i),
                              IF t # <<>> THEN Append(found, Cue(t, 1000 * start_time, 0))
                              ELSE found)
             ELSE VttScan(lines, AfterPass(lines, i), found)

parse_vtt_transcript(content) == List(VttScan(Split(content, "\n"), 1, <<>>))

----------------------------------------------------------------------------
(* parse_json3_transcript.  The payload is modelled by what json.loads      *)
(* makes of it: Malformed when it raises, else the object with its events.  *)

\* a key that is not there
Absent == [tag |-> "absent", val |-> <<>>]

Malformed == [tag |-> "malformed", val |-> <<>>]
JsonObject(events) == [tag |-> "object", val |-> events]

\* event.get(key, 0) / 1000.0 succeeds for a number and for the default
DividesBy1000(v) == v.tag \in {"num", "absent"}

\* the entry divided by 1000 a second time
MillisecondsDividedTwice(v) == IF v.tag = "num" THEN v.val[1] \div 1000 ELSE 0

\* event.get(key, 0) / 1000.0, in milliseconds
Milliseconds(v) == IF v.tag = "num" THEN v.val[1] ELSE 0

\* ''.join of the utf8 entries of the segments that have one
RECURSIVE JoinSegs(_)
JoinSegs(segs) ==
    IF segs = <<>> THEN <<>>
    ELSE (IF Head(segs).utf8.tag = "absent" THEN <<>> ELSE Head(segs).utf8.val)
         \o JoinSegs(Tail(segs))

\* the loop over the events; an exception leaves the loop with None
RECURSIVE Json3Events(_, _)
Json3Events(events, found) ==
    IF events = <<>> THEN List(found)
    ELSE LET event == Head(events)
             t == Strip(JoinSegs(event.segs.val))
         IN  IF event.segs.tag = "absent" THEN Json3Events(Tail(events), found)
             ELSE IF ~DividesBy1000(event.tStartMs) THEN None
             ELSE IF t = <<>> THEN Json3Events(Tail(events), found)
             ELSE IF ~DividesBy1000(event.dDurationMs) THEN None
             ELSE Json3Events(Tail(events),
                              Append(found, Cue(t, Milliseconds(event.tStartMs),
                                                Milliseconds(event.dDurationMs))))

parse_json3_transcript(data) ==
    IF data.tag = "malformed" THEN None
    ELSE Json3Events(data.val, <<>>)

----------------------------------------------------------------------------
(* parse_srv1_transcript.  The payload is modelled by what ET.fromstring    *)
(* makes of it: Malformed when it raises, else the text elements found.     *)

XmlDocument(elems) == [tag |-> "document", val |-> elems]

\* float(s) for a decimal literal: surrounding whitespace is dropped, a
\* sign may lead, digits with at most one point follow; in milliseconds,
\* for literals of at most three decimals.  Anything else the inputs hold
\* is not a number and raises.
ParseFloat(s) ==
    LET t == Strip(s)
        signed == t # <<>> /\ Head(t) \in {"+", "-"}
        body == IF signed THEN Tail(t) ELSE t
        point == IndexOf(body, ".", 1)
        whole == IF point = 0 THEN body ELSE SubSeq(body, 1, point - 1)
        frac == IF point = 0 THEN <<>> ELSE From(body, point + 1)
        wellFormed ==
            /\ whole \o frac # <<>>
            /\ \A i \in 1..Len(whole) : whole[i] \in Digits
            /\ \A i \in 1..Len(frac) : frac[i] \in Digits
        padded == SubSeq(frac \o <<"0", "0", "0">>, 1, 3)
        ms == 1000 * DigitsValue(whole) + DigitsValue(padded)
    IN  IF ~wellFormed THEN ValueError
        ELSE Num(IF signed /\ Head(t) = "-" THEN 0 - ms ELSE ms)

\* float(text_elem.get(key, 0))
FloatAttr(v) == IF v.tag = "absent" THEN Num(0) ELSE ParseFloat(v.val)

\* the loop over the text elements; an exception leaves it with None
RECURSIVE Srv1Elements(_, _)
Srv1Elements(elems, found) ==
    IF elems = <<>> THEN List(found)
    ELSE LET text_elem == Head(elems)
             start_time == FloatAttr(text_elem.start)
             duration == FloatAttr(text_elem.dur)
             t == Strip(text_elem.text.val)
         IN  IF start_time.tag # "num" \/ duration.tag # "num" THEN None
             ELSE Srv1Elements(Tail(elems),
                               IF t # <<>>
                               THEN Append(found, Cue(t, start_time.val[1], duration.val[1]))
                               ELSE found)

parse_srv1_transcript(doc) ==
    IF doc.tag = "malformed" THEN None
    ELSE Srv1Elements(doc.val, <<>>)

----------------------------------------------------------------------------
(* transcript_to_markdown as a function of its arguments: the text of the   *)
(* document                                                                 *)

\* the loop over the cues from place i on: the paragraph lines it and the
\* text remaining after it write
RECURSIVE ParagraphLines(_, _, _, _, _, _)
ParagraphLines(cues, i, paragraph, start, stamps, japanese) ==
    IF i > Len(cues) THEN Remaining(stamps, start, paragraph, japanese)
    ELSE LET t == CueText(cues[i], japanese)
             anchor == Anchor(start, cues[i])
             appended == paragraph \o t \o <<" ">>
         IN  IF t = <<>>
             THEN ParagraphLines(cues, i + 1, paragraph, start, stamps, japanese)
             ELSE IF ClosesParagraph(t, appended)
             THEN <<ClosedParagraph(stamps, anchor, appended, japanese)>>
                  \o ParagraphLines(cues, i + 1, <<>>, NoTime, stamps, japanese)
             ELSE ParagraphLines(cues, i + 1, appended, anchor, stamps, japanese)

MarkdownLines(cues, info, stamps) ==
    IF cues = <<>> THEN Append(Header(info), NoTranscriptLine)
    ELSE Header(info)
         \o ParagraphLines(cues, 1, <<>>, NoTime, stamps,
                           detect_video_language(info.title, <<>>) = "ja")

\* the characters a line of the document is written with
LineText(line) ==
    IF line.kind = "title" THEN <<"#", " ">> \o line.text \o <<"\n", "\n">>
    ELSE IF line.kind = "video_id" THEN <<"*", "*", "V", "i", "d", "e", "o", " ", "I", "D", ":", "*", "*", " ">> \o line.text \o <<" ", " ", "\n">>
    ELSE IF line.kind = "url" THEN <<"*", "*", "Y", "o", "u", "T", "u", "b", "e", " ", "U", "R", "L", ":", "*", "*", " ">> \o line.text \o <<"\n", "\n">>
    ELSE IF line.kind = "rule" THEN line.text \o <<"\n", "\n">>
    ELSE IF line.kind = "marker" THEN line.text \o <<"\n">>
    ELSE IF line.stamp # <<>> THEN <<"*", "*", "[">> \o line.stamp \o <<"]", "*", "*", " ">> \o line.text \o <<"\n", "\n">>
    ELSE line.text \o <<"\n", "\n">>

RECURSIVE DocumentText(_)
DocumentText(lines) ==
    IF lines = <<>> THEN <<>> ELSE LineText(Head(lines)) \o DocumentText(Tail(lines))

transcript_to_markdown(cues, info, stamps) == DocumentText(MarkdownLines(cues, info, stamps))

----------------------------------------------------------------------------
(* create_summary_markdown *)

create_summary_markdown(info, summary) ==
    <<"#", " ">> \o info.title \o <<" ", "-", " ", "S", "u", "m", "m", "a", "r", "y", "\n", "\n">>
    \o <<"*", "*", "V", "i", "d", "e", "o", " ", "I", "D", ":", "*", "*", " ">> \o info.id \o <<" ", " ", "\n">>
    \o <<"*", "*", "Y", "o", "u", "T", "u", "b", "e", " ", "U", "R", "L", ":", "*", "*", " ", "h", "t", "t", "p", "s", ":", "/", "/", "w", "w", "w", ".", "y", "o", "u", "t", "u", "b", "e", ".", "c", "o", "m", "/", "w", "a", "t", "c", "h", "?", "v", "=">> \o info.id \o <<" ", " ", "\n">>
    \o <<"*", "*", "D", "u", "r", "a", "t", "i", "o", "n", ":", "*", "*", " ">> \o format_timestamp(1000 * info.duration) \o <<"\n", "\n">>
    \o <<"-", "-", "-", "\n", "\n">>
    \o (IF summary # <<>> THEN summary ELSE <<"*", "F", "a", "i", "l", "e", "d", " ", "t", "o", " ", "g", "e", "n", "e", "r", "a", "t", "e", " ", "s", "u", "m", "m", "a", "r", "y", ".", "*", "\n">>)
    \o <<"\n", "\n", "-", "-", "-", "\n", "\n">>
    \o <<"*", "S", "u", "m", "m", "a", "r", "y", " ", "g", "e", "n", "e", "r", "a", "t", "e", "d", " ", "u", "s", "i", "n", "g", " ", "G", "e", "m", "i", "n", "i", " ", "A", "I", "*", "\n">>

----------------------------------------------------------------------------
(* The videos of the platform, as extract_info and the caption locators     *)
(* answer for them                                                          *)

\* MAX_SUMMARY_LENGTH, and the 50000 of markdown[:50000]
MAX_SUMMARY_LENGTH == 50000

Variant(ext, locator) == [ext |-> ext, url |-> locator]

VideoInfo(id, t, subs, auto) ==
    [id |-> id, title |-> t, description |-> <<>>, duration |-> 213,
     subtitles |-> subs, automatic_captions |-> auto]

\* a video with manual captions in two formats, one whose automatic
\* captions decode to no cue, one whose payload is malformed, one offered in
\* an unsupported format only, one without captions
Videos ==
    {VideoInfo(<<"d", "Q", "w", "4", "w", "9", "W", "g", "X", "c", "Q">>, <<"C", "a", "t", " ", "V", "i", "d", "e", "o">>,
               <<[lang |-> "en", formats |-> <<Variant("vtt", "cat.vtt"),
                                               Variant("json3", "cat.json3")>>]>>, <<>>),
     VideoInfo(<<"s", "i", "l", "e", "n", "t", "V", "i", "d", "0", "1">>, <<"S", "i", "l", "e", "n", "t", " ", "V", "i", "d", "e", "o">>, <<>>,
               <<[lang |-> "en", formats |-> <<Variant("json3", "silent.json3")>>]>>),
     VideoInfo(<<"b", "r", "o", "k", "e", "n", "V", "i", "d", "0", "1">>, <<"B", "r", "o", "k", "e", "n", " ", "V", "i", "d", "e", "o">>,
               <<[lang |-> "fr", formats |-> <<Variant("srv1", "broken.srv1"),
                                               Variant("vtt", "broken.vtt")>>]>>, <<>>),
     VideoInfo(<<"o", "d", "d", "F", "o", "r", "m", "a", "t", "0", "1">>, <<"O", "d", "d", " ", "V", "i", "d", "e", "o">>,
               <<[lang |-> "en", formats |-> <<Variant("ttml", "odd.ttml")>>]>>, <<>>),
     VideoInfo(<<"n", "o", "C", "a", "p", "t", "i", "o", "n", "s", "1">>, <<"M", "u", "t", "e", " ", "V", "i", "d", "e", "o">>, <<>>, <<>>)}

\* the text of a one-cue document above its cue text
Preamble(info) ==
    Len(transcript_to_markdown(<<Cue(<<"x">>, 1000, 0)>>, info, TRUE)) - 1

\* two videos whose documents are exactly as long as the summary input may
\* be, and one character longer
LongVideos ==
    {VideoInfo(<<"e", "x", "a", "c", "t", "V", "i", "d", "e", "o", "1">>, <<"E", "x", "a", "c", "t", " ", "V", "i", "d", "e", "o">>,
               <<[lang |-> "en", formats |-> <<Variant("json3", "exact.json3")>>]>>, <<>>),
     VideoInfo(<<"l", "o", "n", "g", "V", "i", "d", "e", "o", "0", "1">>, <<"L", "o", "n", "g", " ", "V", "i", "d", "e", "o">>,
               <<[lang |-> "en", formats |-> <<Variant("json3", "long.json3")>>]>>, <<>>)}

\* extract_info(video_id): the video of that identifier
HasVideo(id) == \E v \in Videos \cup LongVideos : v.id = id
VideoOf(id) == CHOOSE v \in Videos \cup LongVideos : v.id = id

OneEvent(t) ==
    JsonObject(<<[segs |-> List(<<[utf8 |-> Str(t)]>>), tStartMs |-> Num(1000),
                  dDurationMs |-> Num(2000)]>>)

\* the payload behind each locator
PayloadAt(locator) ==
    CASE locator = "cat.json3" ->
            JsonObject(<<[segs |-> List(<<[utf8 |-> Str(<<"H", "e", "l", "l", "o", " ">>)], [utf8 |-> Str(<<"w", "o", "r", "l", "d", ".">>)]>>),
                          tStartMs |-> Num(1000), dDurationMs |-> Absent]>>)
      [] locator = "cat.vtt" -> <<"W", "E", "B", "V", "T", "T", "\n", "\n", "0", "0", ":", "0", "0", ":", "0", "1", ".", "0", "0", "0", " ", "-", "-", ">", " ", "0", "0", ":", "0", "0", ":", "0", "3", ".", "0", "0", "0", "\n", "H", "e", "l", "l", "o", " ", "w", "o", "r", "l", "d", ".", "\n">>
      [] locator = "silent.json3" ->
            JsonObject(<<[segs |-> Absent, tStartMs |-> Num(0), dDurationMs |-> Absent],
                         [segs |-> List(<<[utf8 |-> Str(<<"\n">>)]>>), tStartMs |-> Num(1000),
                          dDurationMs |-> Absent]>>)
      [] locator = "broken.vtt" -> <<"W", "E", "B", "V", "T", "T", "\n", "\n", "0", "0", ":", "0", "0", ":", "0", "1", ".", "0", "0", "0", " ", "-", "-", ">", " ", "0", "0", ":", "0", "0", ":", "0", "3", ".", "0", "0", "0", "\n", "B", "o", "n", "j", "o", "u", "r", ".", "\n">>
      [] locator = "exact.json3" ->
            OneEvent(Repeat("x", MAX_SUMMARY_LENGTH - Preamble(VideoOf(<<"e", "x", "a", "c", "t", "V", "i", "d", "e", "o", "1">>))))
      [] locator = "long.json3" ->
            OneEvent(Repeat("x", MAX_SUMMARY_LENGTH + 1 - Preamble(VideoOf(<<"l", "o", "n", "g", "V", "i", "d", "e", "o", "0", "1">>))))
      [] OTHER -> Malformed

\* what call_gemini_api returns when it returns a text: a summary, or nothing
\* in it
Summaries == {<<"A", " ", "c", "a", "t", ".">>, <<>>}

\* os.getenv("GEMINI_API_KEY"): unset, the placeholder, a key
ApiKeys == {None, Str(<<"Y", "O", "U", "R", "_", "G", "E", "M", "I", "N", "I", "_", "A", "P", "I", "_", "K", "E", "Y">>), Str(<<"k">>)}

\* the URLs clients post: identifiers of the videos and of no video, a short
\* link, a text that is no URL, and two URLs urlparse or the path split
\* raises on
Urls ==
    {v.id : v \in Videos} \cup
    {<<"u", "n", "k", "n", "o", "w", "n", "V", "i", "d", "1">>, <<"h", "t", "t", "p", "s", ":", "/", "/", "y", "o", "u", "t", "u", ".", "b", "e", "/", "d", "Q", "w", "4", "w", "9", "W", "g", "X", "c", "Q">>, <<"c", "a", "t", "s">>, <<"h", "t", "t", "p", ":", "/", "/", "[">>, <<"h", "t", "t", "p", "s", ":", "/", "/", "y", "o", "u", "t", "u", ".", "b", "e">>}

LongUrls == {v.id : v \in LongVideos} \cup {<<"d", "Q", "w", "4", "w", "9", "W", "g", "X", "c", "Q">>}

TranscriptRequest(u, stamps, summary) ==
    [url |-> u, include_timestamps |-> stamps, generate_summary |-> summary,
     summary_lang |-> "auto"]

Requests ==
    {TranscriptRequest(u, TRUE, g) : u \in Urls, g \in BOOLEAN}

LongRequests ==
    {TranscriptRequest(u, s, TRUE) : u \in LongUrls, s \in BOOLEAN}

\* os.urandom(8).hex()
JobIds == {"00000000000000aa", "00000000000000bb"}

----------------------------------------------------------------------------
(* State *)

VARIABLES
    url,                 \* extract_video_id: the argument
    video_id,            \* extract_video_id: what the call returned or raised
    r_pc,                \* extract_video_id: "call" before, "done" after
    title,               \* info['title']
    description,         \* info['description']
    subtitles,           \* info['subtitles']
    automatic_captions,  \* info['automatic_captions']
    detected_language,   \* get_video_info_and_transcript: the language detected
    transcript_type,     \* get_video_info_and_transcript: the provenance printed
    info,                \* get_video_info_and_transcript: first value returned
    transcript_data,     \* get_video_info_and_transcript: second value returned
    s_pc,                \* get_video_info_and_transcript: "call", "done"
    dl_transcript_data,  \* download_and_parse_transcript: the argument
    best_format,         \* download_and_parse_transcript: the variant chosen
    fetches,             \* download_and_parse_transcript: the urlopen calls made
    fetched_url,         \* download_and_parse_transcript: the locator last fetched
    decoder,             \* download_and_parse_transcript: the decoder called
    printed,             \* download_and_parse_transcript: the last message printed
    dl_result,           \* download_and_parse_transcript: the value returned
    d_pc,                \* download_and_parse_transcript: "call", "fetch", "parse", "done"
    text,                \* clean_japanese_text: the argument
    cleaned,             \* clean_japanese_text: the value returned
    cleaned_again,       \* clean_japanese_text: the value returned for cleaned
    c_pc,                \* clean_japanese_text: "call", "once", "twice"
    transcript,          \* transcript_to_markdown: the cues, each text and start
    video_info,          \* transcript_to_markdown: title and id
    include_timestamps,  \* transcript_to_markdown: the flag
    is_japanese,         \* transcript_to_markdown: the language of the document
    markdown,            \* transcript_to_markdown: the lines written so far
    current_paragraph,   \* transcript_to_markdown: the accumulator
    current_start_time,  \* transcript_to_markdown: the anchor, NoTime for None
    entry,               \* transcript_to_markdown: the place of the loop
    m_pc,                \* transcript_to_markdown: "call", "loop", "done"
    decoder_called,      \* the decoders: the one that is called
    content,             \* the decoders: the payload as the parser of its format reads it
    decoded,             \* the decoders: the value returned
    x_pc,                \* the decoders: "call", "done"
    jobs,                \* app.py: the job records by job id
    tasks,               \* app.py: the locals of each process_transcript run
    response,            \* app.py: the last response to a status poll
    to_post,             \* app.py: the requests clients have yet to post
    environ              \* app.py: os.getenv("GEMINI_API_KEY")

varsResolve == <<url, video_id, r_pc>>
varsSelect == <<title, description, subtitles, automatic_captions,
                detected_language, transcript_type, info, transcript_data, s_pc>>
varsDownload == <<dl_transcript_data, best_format, fetches, fetched_url,
                  decoder, printed, dl_result, d_pc>>
varsClean == <<text, cleaned, cleaned_again, c_pc>>
varsMarkdown == <<transcript, video_info, include_timestamps, is_japanese, markdown,
                  current_paragraph, current_start_time, entry, m_pc>>
varsDecode == <<decoder_called, content, decoded, x_pc>>
varsJobs == <<jobs, tasks, response, to_post, environ>>
vars == <<varsResolve, varsSelect, varsDownload, varsClean, varsMarkdown, varsDecode,
          varsJobs>>

\* what each component leaves alone
notResolve == <<varsSelect, varsDownload, varsClean, varsMarkdown, varsDecode, varsJobs>>
notSelect == <<varsResolve, varsDownload, varsClean, varsMarkdown, varsDecode, varsJobs>>
notDownload == <<varsResolve, varsSelect, varsClean, varsMarkdown, varsDecode, varsJobs>>
notClean == <<varsResolve, varsSelect, varsDownload, varsMarkdown, varsDecode, varsJobs>>
notMarkdown == <<varsResolve, varsSelect, varsDownload, varsClean, varsDecode, varsJobs>>
notDecode == <<varsResolve, varsSelect, varsDownload, varsClean, varsMarkdown, varsJobs>>
notJobs == <<varsResolve, varsSelect, varsDownload, varsClean, varsMarkdown, varsDecode>>

\* a component that is not running
IdleResolve == url = <<>> /\ video_id = NotReturned /\ r_pc = "idle"

IdleSelect ==
    /\ title = <<>>
    /\ description = <<>>
    /\ subtitles = <<>>
    /\ automatic_captions = <<>>
    /\ detected_language = "None"
    /\ transcript_type = <<"None">>
    /\ info = "pending"
    /\ transcript_data = NotReturned
    /\ s_pc = "idle"

IdleDownload ==
    /\ dl_transcript_data = <<>>
    /\ best_format = NoFormat
    /\ fetches = 0
    /\ fetched_url = 0
    /\ decoder = "None"
    /\ printed = "None"
    /\ dl_result = NotReturned
    /\ d_pc = "idle"

IdleClean ==
    /\ text = <<>>
    /\ cleaned = <<>>
    /\ cleaned_again = <<>>
    /\ c_pc = "idle"

IdleMarkdown ==
    /\ transcript = <<>>
    /\ video_info = [title |-> <<>>, id |-> <<>>]
    /\ include_timestamps = FALSE
    /\ is_japanese = FALSE
    /\ markdown = <<>>
    /\ current_paragraph = <<>>
    /\ current_start_time = NoTime
    /\ entry = 0
    /\ m_pc = "idle"

IdleDecode ==
    /\ decoder_called = "None"
    /\ content = <<>>
    /\ decoded = NotReturned
    /\ x_pc = "idle"

IdleJobs ==
    /\ jobs = <<>>
    /\ tasks = <<>>
    /\ response = NotReturned
    /\ to_post = <<>>
    /\ environ = None

----------------------------------------------------------------------------
(* extract_video_id, called on each input *)

InitResolve ==
    /\ url \in ResolveInputs
    /\ video_id = NotReturned
    /\ r_pc = "call"
    /\ IdleSelect /\ IdleDownload /\ IdleClean /\ IdleMarkdown /\ IdleDecode /\ IdleJobs

Resolve ==
    /\ r_pc = "call"
    /\ video_id' = extract_video_id(url)
    /\ r_pc' = "done"
    /\ UNCHANGED <<url, notResolve>>

NextResolve == Resolve

SpecResolve == InitResolve /\ [][NextResolve]_vars

----------------------------------------------------------------------------
(* get_video_info_and_transcript *)

InitSelect ==
    /\ title \in Titles
    /\ description \in Descriptions
    /\ subtitles \in Mappings("manual", MaxTracks)
    /\ automatic_captions \in Mappings("auto", MaxTracks - Len(subtitles))
    /\ detected_language = "None"
    /\ transcript_type = <<"None">>
    /\ info = "pending"
    /\ transcript_data = NotReturned
    /\ s_pc = "call"
    /\ IdleResolve /\ IdleDownload /\ IdleClean /\ IdleMarkdown /\ IdleDecode /\ IdleJobs

\* extract_info returns: the track is chosen and returned with the info
SelectTrack ==
    /\ s_pc = "call"
    /\ LET detected == detect_video_language(title, description)
           chosen == ChooseTrack(detected, subtitles, automatic_captions)
       IN  /\ detected_language' = detected
           /\ transcript_type' = chosen.type
           /\ info' = "info"
           /\ transcript_data' = IF Truthy(chosen.data) THEN chosen.data ELSE None
    /\ s_pc' = "done"
    /\ UNCHANGED <<title, description, subtitles, automatic_captions, notSelect>>

\* extract_info raises: (None, None) is returned
SelectFails ==
    /\ s_pc = "call"
    /\ info' = "None"
    /\ transcript_data' = None
    /\ s_pc' = "done"
    /\ UNCHANGED <<title, description, subtitles, automatic_captions,
                   detected_language, transcript_type, notSelect>>

NextSelect == SelectTrack \/ SelectFails

SpecSelect == InitSelect /\ [][NextSelect]_vars

----------------------------------------------------------------------------
(* download_and_parse_transcript *)

InitDownload ==
    /\ dl_transcript_data \in VariantLists
    /\ best_format = NoFormat
    /\ fetches = 0
    /\ fetched_url = 0
    /\ decoder = "None"
    /\ printed = "None"
    /\ dl_result = NotReturned
    /\ d_pc = "call"
    /\ IdleResolve /\ IdleSelect /\ IdleClean /\ IdleMarkdown /\ IdleDecode /\ IdleJobs

\* the loop over the variants, and the return when none is suitable
PickFormat ==
    /\ d_pc = "call"
    /\ LET best == BestFormat(dl_transcript_data, NoFormat)
       IN  /\ best_format' = best
           /\ IF best = NoFormat
              THEN /\ printed' = "No suitable transcript format found"
                   /\ dl_result' = None
                   /\ d_pc' = "done"
              ELSE /\ printed' = "Downloading transcript"
                   /\ dl_result' = dl_result
                   /\ d_pc' = "fetch"
    /\ UNCHANGED <<dl_transcript_data, fetches, fetched_url, decoder, notDownload>>

\* urlopen returns the payload
FetchReturns ==
    /\ d_pc = "fetch"
    /\ fetches' = fetches + 1
    /\ fetched_url' = best_format.url
    /\ printed' = "Downloaded transcript"
    /\ d_pc' = "parse"
    /\ UNCHANGED <<dl_transcript_data, best_format, decoder, dl_result, notDownload>>

\* urlopen or the decoding of the bytes raises
FetchRaises ==
    /\ d_pc = "fetch"
    /\ fetches' = fetches + 1
    /\ fetched_url' = best_format.url
    /\ printed' = "Error downloading transcript"
    /\ dl_result' = None
    /\ d_pc' = "done"
    /\ UNCHANGED <<dl_transcript_data, best_format, decoder, notDownload>>

\* the decoder of the chosen format is called and its value returned
Parse ==
    /\ d_pc = "parse"
    /\ decoder' = DecoderFor(best_format.ext)
    /\ \E cues \in Decoded :
          /\ dl_result' = cues
          /\ printed' = IF cues = None THEN "Error parsing transcript"
                        ELSE printed
    /\ d_pc' = "done"
    /\ UNCHANGED <<dl_transcript_data, best_format, fetches, fetched_url, notDownload>>

NextDownload == PickFormat \/ FetchReturns \/ FetchRaises \/ Parse

SpecDownload == InitDownload /\ [][NextDownload]_vars

----------------------------------------------------------------------------
(* clean_japanese_text, applied once and then to its own result *)

InitClean ==
    /\ text \in CleanInputs
    /\ cleaned = <<>>
    /\ cleaned_again = <<>>
    /\ c_pc = "call"
    /\ IdleResolve /\ IdleSelect /\ IdleDownload /\ IdleMarkdown /\ IdleDecode /\ IdleJobs

Clean ==
    /\ c_pc = "call"
    /\ cleaned' = clean_japanese_text(text)
    /\ c_pc' = "once"
    /\ UNCHANGED <<text, cleaned_again, notClean>>

CleanAgain ==
    /\ c_pc = "once"
    /\ cleaned_again' = clean_japanese_text(cleaned)
    /\ c_pc' = "twice"
    /\ UNCHANGED <<text, cleaned, notClean>>

NextClean == Clean \/ CleanAgain

SpecClean == InitClean /\ [][NextClean]_vars

----------------------------------------------------------------------------
(* transcript_to_markdown *)

InitMarkdown ==
    /\ transcript \in Transcripts
    /\ video_info \in VideoInfos
    /\ include_timestamps \in BOOLEAN
    /\ is_japanese = FALSE
    /\ markdown = <<>>
    /\ current_paragraph = <<>>
    /\ current_start_time = NoTime
    /\ entry = 0
    /\ m_pc = "call"
    /\ IdleResolve /\ IdleSelect /\ IdleDownload /\ IdleClean /\ IdleDecode /\ IdleJobs

\* the header, and the whole document when there is no transcript
BeginMarkdown ==
    /\ m_pc = "call"
    /\ is_japanese' = (detect_video_language(video_info.title, <<>>) = "ja")
    /\ IF transcript = <<>>
       THEN /\ markdown' = Append(Header(video_info), NoTranscriptLine)
            /\ m_pc' = "done"
            /\ entry' = entry
       ELSE /\ markdown' = Header(video_info)
            /\ m_pc' = "loop"
            /\ entry' = 1
    /\ UNCHANGED <<transcript, video_info, include_timestamps, current_paragraph,
                   current_start_time, notMarkdown>>

\* one pass of the loop over the cues
ProcessEntry ==
    /\ m_pc = "loop"
    /\ entry <= Len(transcript)
    /\ entry' = entry + 1
    /\ \E t \in {CueText(transcript[entry], is_japanese)} :
       \E paragraph \in {current_paragraph \o t \o <<" ">>} :
       LET start == Anchor(current_start_time, transcript[entry])
       IN  IF t = <<>>
           THEN UNCHANGED <<markdown, current_paragraph, current_start_time>>
           ELSE IF ClosesParagraph(t, paragraph)
                THEN /\ markdown' = Append(markdown,
                            ClosedParagraph(include_timestamps, start, paragraph, is_japanese))
                     /\ current_paragraph' = <<>>
                     /\ current_start_time' = NoTime
                ELSE /\ markdown' = markdown
                     /\ current_paragraph' = paragraph
                     /\ current_start_time' = start
    /\ UNCHANGED <<transcript, video_info, include_timestamps, is_japanese, m_pc,
                   notMarkdown>>

\* the remaining text after the loop, and the return
FinishMarkdown ==
    /\ m_pc = "loop"
    /\ entry > Len(transcript)
    /\ markdown' = markdown \o Remaining(include_timestamps, current_start_time,
                                         current_paragraph, is_japanese)
    /\ m_pc' = "done"
    /\ UNCHANGED <<transcript, video_info, include_timestamps, is_japanese,
                   current_paragraph, current_start_time, entry, notMarkdown>>

NextMarkdown == BeginMarkdown \/ ProcessEntry \/ FinishMarkdown

SpecMarkdown == InitMarkdown /\ [][NextMarkdown]_vars

----------------------------------------------------------------------------
(* The inputs of the decoders *)

\* the most lines of a cue-text payload, events of a timed-JSON payload and
\* text elements of a timed-XML payload
MaxVttLines == 3
MaxEvents == 2
MaxElems == 2

\* lines of a cue-text payload: the header, blank lines, timing lines in the
\* two timestamp forms and with settings after them, a timing line whose
\* timestamp is no number, timing lines with the arrow set off by tabs and
\* by nothing, and text lines with and without markup
VttLines ==
    {<<"W", "E", "B", "V", "T", "T">>, <<>>, <<" ">>,
     <<"0", "0", ":", "0", "0", ":", "0", "1", ".", "0", "0", "0", " ", "-", "-", ">", " ", "0", "0", ":", "0", "0", ":", "0", "3", ".", "0", "0", "0">>,
     <<"0", "1", ":", "0", "5", ".", "5", "0", "0", " ", "-", "-", ">", " ", "0", "1", ":", "0", "7", ".", "0", "0", "0">>,
     <<"1", ":", "0", "2", ":", "0", "3", ".", "2", "5", "0", " ", "-", "-", ">", " ", "1", ":", "0", "2", ":", "0", "5", ".", "0", "0", "0", " ", "a", "l", "i", "g", "n", ":", "s", "t", "a", "r", "t">>,
     <<"x", "x", ":", "0", "0", ":", "0", "1", ".", "0", "0", "0", " ", "-", "-", ">", " ", "0", "0", ":", "0", "0", ":", "0", "3", ".", "0", "0", "0">>,
     <<"0", "0", ":", "0", "0", ":", "0", "5", ".", "0", "0", "0", "\t", "-", "-", ">", "\t", "0", "0", ":", "0", "0", ":", "0", "7", ".", "0", "0", "0">>,
     <<"0", "0", ":", "0", "7", "-", "-", ">", "0", "0", ":", "0", "9">>,
     <<"<", "b", ">", "H", "i", "<", "/", "b", ">">>, <<"H", "e", "l", "l", "o">>, <<"<", "c", ">", " ", "<", "/", "c", ">">>, <<"<", "i", ">", "<", "/", "i", ">">>}

RECURSIVE JoinLines(_)
JoinLines(lines) ==
    IF lines = <<>> THEN <<>>
    ELSE IF Len(lines) = 1 THEN lines[1]
    ELSE lines[1] \o <<"\n">> \o JoinLines(Tail(lines))

VttContents ==
    {JoinLines(ls) : ls \in UNION {[1..n -> VttLines] : n \in 0..MaxVttLines}}

\* segment lists: none, an empty one, the documented one, a blank one, one
\* whose first segment has no utf8 entry
SegLists ==
    {Absent, List(<<>>),
     List(<<[utf8 |-> Str(<<"H", "e", "l", "l", "o", " ">>)], [utf8 |-> Str(<<"w", "o", "r", "l", "d", ".">>)]>>),
     List(<<[utf8 |-> Str(<<" ", " ">>)]>>),
     List(<<[utf8 |-> Absent], [utf8 |-> Str(<<"H", "i">>)]>>)}

\* tStartMs and dDurationMs: not there, a number, a string
StartValues == {Absent, Num(1000), Str(<<"a", "b", "c">>)}
DurationValues == {Absent, Num(2000), Str(<<"a", "b", "c">>)}

Events == [segs : SegLists, tStartMs : StartValues, dDurationMs : DurationValues]

Json3Contents ==
    {Malformed} \cup {JsonObject(es) : es \in UNION {[1..n -> Events] : n \in 0..MaxEvents}}

\* text elements: start and dur not there, a decimal literal, no number;
\* no text, a text, a blank text
Elems ==
    [start : {Absent, Str(<<"2", ".", "5">>), Str(<<"a", "b", "c">>)},
     dur : {Absent, Str(<<"1", ".", "0">>), Str(<<"1", "s">>)},
     text : {None, Str(<<"H", "i">>), Str(<<" ", " ">>)}]

Srv1Contents ==
    {Malformed} \cup {XmlDocument(es) : es \in UNION {[1..n -> Elems] : n \in 0..MaxElems}}

\* the decoder of each format tag and what it is called on
Decode(name, payload) ==
    IF name = "parse_json3_transcript" THEN parse_json3_transcript(payload)
    ELSE IF name = "parse_vtt_transcript" THEN parse_vtt_transcript(payload)
    ELSE parse_srv1_transcript(payload)

ContentsOf(name) ==
    IF name = "parse_json3_transcript" THEN Json3Contents
    ELSE IF name = "parse_vtt_transcript" THEN VttContents
    ELSE Srv1Contents

----------------------------------------------------------------------------
(* The three decoders, each called on each of its payloads *)

InitDecode ==
    /\ decoder_called \in {DecoderFor(e) : e \in {"json3", "vtt", "srv1"}}
    /\ content \in ContentsOf(decoder_called)
    /\ decoded = NotReturned
    /\ x_pc = "call"
    /\ IdleResolve /\ IdleSelect /\ IdleDownload /\ IdleClean /\ IdleMarkdown /\ IdleJobs

ParseJson3 ==
    /\ x_pc = "call"
    /\ decoder_called = "parse_json3_transcript"
    /\ decoded' = parse_json3_transcript(content)
    /\ x_pc' = "done"
    /\ UNCHANGED <<decoder_called, content, notDecode>>

ParseVtt ==
    /\ x_pc = "call"
    /\ decoder_called = "parse_vtt_transcript"
    /\ decoded' = parse_vtt_transcript(content)
    /\ x_pc' = "done"
    /\ UNCHANGED <<decoder_called, content, notDecode>>

ParseSrv1 ==
    /\ x_pc = "call"
    /\ decoder_called = "parse_srv1_transcript"
    /\ decoded' = parse_srv1_transcript(content)
    /\ x_pc' = "done"
    /\ UNCHANGED <<decoder_called, content, notDecode>>

NextDecode == ParseJson3 \/ ParseVtt \/ ParseSrv1

SpecDecode == InitDecode /\ [][NextDecode]_vars

----------------------------------------------------------------------------
(* app.py: the job records and the runs of process_transcript.  A text the  *)
(* program puts together from fixed messages is the sequence of its pieces. *)

\* JobStatus(status=..., progress=...)
JobStatus(status, progress) ==
    [status |-> status, progress |-> <<progress>>, result |-> None, error |-> None]

\* str(e) of the exceptions extract_video_id lets through
ExceptionText ==
    ("ValueError" :> "Invalid IPv6 URL" @@ "IndexError" :> "list index out of range")

\* jobs[job_id].progress = ...
Progress(job, progress) == [job EXCEPT !.progress = <<progress>>]

\* Raised leaving the status as it is
RaisedKeepsStatus(job) == job

\* the first assignment of the except branch
Raised(job) == [job EXCEPT !.status = "error"]

\* the other two assignments of the except branch
Errored(job, message) ==
    [job EXCEPT !.error = Str(<<message>>), !.progress = <<"Error: ", message>>]

\* the first two of the last three assignments of the try block
Completing(job) ==
    [job EXCEPT !.status = "completed", !.progress = <<"Complete! U+1F389">>]

\* the last assignment of the try block
Completed(job, result) == [job EXCEPT !.result = result]

\* Assign writing the record of every job
AssignEveryJob(js, job_id, job) == [k \in DOMAIN js |-> job]

\* the assignments to the fields of jobs[job_id]
Assign(js, job_id, job) == [js EXCEPT ![job_id] = job]

\* the locals of a run before it has bound any
NewTask(request) ==
    [pc |-> "start", request |-> request, video_id |-> NotReturned,
     video_info |-> NotReturned, transcript_data |-> NotReturned,
     best_format |-> NoFormat, fetched |-> <<>>, decoders |-> <<>>,
     printed |-> "None", transcript |-> NotReturned, markdown |-> NotReturned,
     text_to_summarize |-> NotReturned, summary |-> NotReturned,
     result |-> NotReturned, e |-> "None"]

\* the result dict before the summary is added
Result(markdown_text, id, video) ==
    [transcript |-> markdown_text, video_id |-> id, video_title |-> video.title,
     video_info |-> video, summary |-> Absent]

\* markdown[:50000]
Truncated(markdown_text) ==
    SubSeq(markdown_text, 1,
           IF Len(markdown_text) < MAX_SUMMARY_LENGTH THEN Len(markdown_text)
           ELSE MAX_SUMMARY_LENGTH)

\* api_key and api_key != "YOUR_GEMINI_API_KEY"
KeyConfigured(key) ==
    key.tag = "str" /\ key.val # <<>> /\ key.val # <<"Y", "O", "U", "R", "_", "G", "E", "M", "I", "N", "I", "_", "A", "P", "I", "_", "K", "E", "Y">>

\* a run ends: its locals with the run over
Ended(task) == [task EXCEPT !.pc = "done"]

\* an exception is raised in the try block: the run is in the except branch
\* with e bound and the status written
Excepted(message, task) == [task EXCEPT !.pc = "except", !.e = message]

\* the try block has written status and progress and is to write the result
Resulting(result, task) == [task EXCEPT !.pc = "result", !.result = result]

\* EventLoopFree for handlers that run on threads of their own
EventLoopAlwaysFree == TRUE

\* no run stands between two assignments to its record: the handlers and
\* the runs are coroutines of one event loop, which takes up another one
\* only where the one it runs is suspended or over
EventLoopFree ==
    \A k \in DOMAIN tasks : tasks[k].pc \notin {"identify", "except", "result"}

InitRuns ==
    /\ jobs = <<>>
    /\ tasks = <<>>
    /\ response = NotReturned
    /\ IdleResolve /\ IdleSelect /\ IdleDownload /\ IdleClean /\ IdleMarkdown /\ IdleDecode

\* two clients, each with a request for one of the short videos
InitJobs ==
    /\ to_post \in [1..2 -> Requests]
    /\ environ \in ApiKeys
    /\ InitRuns

\* one client with a request for a video at the summary input limit
InitLongJob ==
    /\ to_post \in [1..1 -> LongRequests]
    /\ environ = Str(<<"k">>)
    /\ InitRuns

\* POST /api/extract: the record is made and the run is put on the
\* background tasks
extract_transcript(job_id) ==
    /\ EventLoopFree
    /\ to_post # <<>>
    /\ job_id \notin DOMAIN jobs
    /\ jobs' = jobs @@ (job_id :> JobStatus("pending", "Starting..."))
    /\ tasks' = tasks @@ (job_id :> NewTask(Head(to_post)))
    /\ to_post' = Tail(to_post)
    /\ UNCHANGED <<response, environ, notJobs>>

\* GET /api/status/{job_id}
get_status(job_id) ==
    /\ EventLoopFree
    /\ response' = IF job_id \in DOMAIN jobs THEN [tag |-> "200", val |-> jobs[job_id]]
                   ELSE [tag |-> "404", val |-> <<"Job not found">>]
    /\ UNCHANGED <<jobs, tasks, to_post, environ, notJobs>>

\* extract_video_id(request.url) for the URLs the clients post, computed once
VideoIdOf == [u \in Urls \cup LongUrls |-> extract_video_id(u)]

\* process_transcript from its start to the call of extract_video_id
BeginRun(job_id) ==
    /\ job_id \in DOMAIN tasks
    /\ tasks[job_id].pc = "start"
    /\ EventLoopFree
    /\ jobs' = Assign(jobs, job_id,
                      Progress([jobs[job_id] EXCEPT !.status = "processing"],
                               "Extracting video ID..."))
    /\ tasks' = [tasks EXCEPT ![job_id] = [@ EXCEPT !.pc = "identify"]]
    /\ UNCHANGED <<response, to_post, environ, notJobs>>

\* process_transcript from the call of extract_video_id to the call of
\* extract_info
IdentifyVideo(job_id) ==
    /\ job_id \in DOMAIN tasks
    /\ tasks[job_id].pc = "identify"
    /\ \E id \in {VideoIdOf[tasks[job_id].request.url]} :
       LET task == tasks[job_id]
           processing == jobs[job_id]
       IN  IF id.tag = "raise"
           THEN /\ jobs' = Assign(jobs, job_id, Raised(processing))
                /\ tasks' = [tasks EXCEPT ![job_id] = Excepted(ExceptionText[id.val], task)]
           ELSE IF id.val = <<>>
           THEN /\ jobs' = Assign(jobs, job_id, Raised(processing))
                /\ tasks' = [tasks EXCEPT ![job_id] = Excepted("Invalid YouTube URL or video ID", [task EXCEPT !.video_id = id])]
           ELSE /\ jobs' = Assign(jobs, job_id,
                                  Progress(processing, "Fetching video information..."))
                /\ tasks' = [tasks EXCEPT ![job_id] =
                                [task EXCEPT !.video_id = id, !.pc = "video"]]
    /\ UNCHANGED <<response, to_post, environ, notJobs>>

\* VideoInfoRaises with the exception leaving process_transcript
VideoInfoRaisesUncaught(job_id) ==
    /\ job_id \in DOMAIN tasks
    /\ tasks[job_id].pc = "video"
    /\ EventLoopFree
    /\ jobs' = jobs
    /\ tasks' = [tasks EXCEPT ![job_id] =
                    Ended([@ EXCEPT !.video_info = None, !.transcript_data = None])]
    /\ UNCHANGED <<response, to_post, environ, notJobs>>

\* extract_info raises: (None, None) comes back
VideoInfoRaises(job_id) ==
    /\ job_id \in DOMAIN tasks
    /\ tasks[job_id].pc = "video"
    /\ EventLoopFree
    /\ jobs' = Assign(jobs, job_id, Raised(jobs[job_id]))
    /\ tasks' = [tasks EXCEPT ![job_id] =
                    Excepted("Failed to get video information", [@ EXCEPT !.video_info = None, !.transcript_data = None])]
    /\ UNCHANGED <<response, to_post, environ, notJobs>>

\* extract_info returns: the track is chosen, and of its variants the format,
\* up to the call of urlopen
VideoInfoReturns(job_id) ==
    /\ job_id \in DOMAIN tasks
    /\ tasks[job_id].pc = "video"
    /\ EventLoopFree
    /\ HasVideo(tasks[job_id].video_id.val)
    /\ \E video \in {VideoOf(tasks[job_id].video_id.val)} :
       \E chosen \in {ChooseTrack(detect_video_language(video.title, video.description),
                                  video.subtitles, video.automatic_captions)} :
       \E data \in {IF Truthy(chosen.data) THEN chosen.data ELSE None} :
       \E best \in {BestFormat(data.val, NoFormat)} :
       LET task == tasks[job_id]
           bound == [task EXCEPT !.video_info = video, !.transcript_data = data]
       IN  IF data = None
           THEN /\ jobs' = Assign(jobs, job_id, Raised(jobs[job_id]))
                /\ tasks' = [tasks EXCEPT ![job_id] = Excepted("No transcript available for this video", bound)]
           ELSE IF best = NoFormat
           THEN /\ jobs' = Assign(jobs, job_id, Raised(jobs[job_id]))
                /\ tasks' = [tasks EXCEPT ![job_id] =
                                Excepted("Failed to parse transcript", [bound EXCEPT
                                          !.printed = "No suitable transcript format found",
                                          !.transcript = None])]
           ELSE /\ jobs' = Assign(jobs, job_id,
                                  Progress(jobs[job_id], "Downloading transcript..."))
                /\ tasks' = [tasks EXCEPT ![job_id] =
                                [bound EXCEPT !.best_format = best,
                                              !.printed = "Downloading transcript",
                                              !.pc = "fetch"]]
    /\ UNCHANGED <<response, to_post, environ, notJobs>>

\* PayloadRaises with the fetch tried once more before the run gives up
PayloadRaisesThenRetries(job_id) ==
    /\ job_id \in DOMAIN tasks
    /\ tasks[job_id].pc = "fetch"
    /\ EventLoopFree
    /\ IF tasks[job_id].fetched = <<>>
       THEN /\ jobs' = jobs
            /\ tasks' = [tasks EXCEPT ![job_id] =
                            [@ EXCEPT !.fetched = Append(@, tasks[job_id].best_format.url),
                                      !.printed = "Error downloading transcript"]]
       ELSE /\ jobs' = Assign(jobs, job_id, Raised(jobs[job_id]))
            /\ tasks' = [tasks EXCEPT ![job_id] =
                            Excepted("Failed to parse transcript", [@ EXCEPT !.fetched = Append(@, tasks[job_id].best_format.url),
                                            !.printed = "Error downloading transcript",
                                            !.transcript = None])]
    /\ UNCHANGED <<response, to_post, environ, notJobs>>

\* urlopen or the decoding of the bytes raises
PayloadRaises(job_id) ==
    /\ job_id \in DOMAIN tasks
    /\ tasks[job_id].pc = "fetch"
    /\ EventLoopFree
    /\ jobs' = Assign(jobs, job_id, Raised(jobs[job_id]))
    /\ tasks' = [tasks EXCEPT ![job_id] =
                    Excepted("Failed to parse transcript", [@ EXCEPT !.fetched = Append(@, tasks[job_id].best_format.url),
                                    !.printed = "Error downloading transcript",
                                    !.transcript = None])]
    /\ UNCHANGED <<response, to_post, environ, notJobs>>

\* urlopen returns the payload: it is decoded and rendered, up to the call
\* of call_gemini_api or to the end of the run
PayloadReturns(job_id) ==
    /\ job_id \in DOMAIN tasks
    /\ tasks[job_id].pc = "fetch"
    /\ EventLoopFree
    /\ \E cues \in {Decode(DecoderFor(tasks[job_id].best_format.ext),
                            PayloadAt(tasks[job_id].best_format.url))} :
       \E document \in {transcript_to_markdown(cues.val, tasks[job_id].video_info,
                                                tasks[job_id].request.include_timestamps)} :
          LET task == tasks[job_id]
              fetched == [task EXCEPT !.fetched = Append(@, task.best_format.url),
                                      !.decoders = Append(@, DecoderFor(task.best_format.ext)),
                                      !.printed = IF cues = None THEN "Error parsing transcript"
                                                  ELSE "Downloaded transcript",
                                      !.transcript = cues]
              rendered == [fetched EXCEPT !.markdown = Str(document)]
          IN  IF ~Truthy(cues)
              THEN /\ jobs' = Assign(jobs, job_id, Raised(jobs[job_id]))
                   /\ tasks' = [tasks EXCEPT ![job_id] = Excepted("Failed to parse transcript", fetched)]
              ELSE IF task.request.generate_summary /\ KeyConfigured(environ)
              THEN /\ jobs' = Assign(jobs, job_id,
                                     Progress(jobs[job_id], "Generating AI summary..."))
                   /\ tasks' = [tasks EXCEPT ![job_id] =
                                   [rendered EXCEPT
                                       !.text_to_summarize = Str(Truncated(document)),
                                       !.pc = "summary"]]
              ELSE /\ jobs' = Assign(jobs, job_id, Completing(jobs[job_id]))
                   /\ tasks' = [tasks EXCEPT ![job_id] =
                                   Resulting(Result(document, task.video_id.val,
                                                    task.video_info), rendered)]
    /\ UNCHANGED <<response, to_post, environ, notJobs>>

\* call_gemini_api returns a text; an empty one adds no summary
SummaryReturns(job_id) ==
    /\ job_id \in DOMAIN tasks
    /\ tasks[job_id].pc = "summary"
    /\ EventLoopFree
    /\ \E summary \in Summaries :
          LET task == tasks[job_id]
              result == [Result(task.markdown.val, task.video_id.val, task.video_info)
                            EXCEPT !.summary =
                                IF summary = <<>> THEN Absent
                                ELSE Str(create_summary_markdown(task.video_info, summary))]
          IN  /\ jobs' = Assign(jobs, job_id, Completing(jobs[job_id]))
              /\ tasks' = [tasks EXCEPT ![job_id] =
                              Resulting(result, [task EXCEPT !.summary = Str(summary)])]
    /\ UNCHANGED <<response, to_post, environ, notJobs>>

\* SummaryFails with the failure raised as the other failures are
SummaryFailsTheJob(job_id) ==
    /\ job_id \in DOMAIN tasks
    /\ tasks[job_id].pc = "summary"
    /\ EventLoopFree
    /\ jobs' = Assign(jobs, job_id, Raised(jobs[job_id]))
    /\ tasks' = [tasks EXCEPT ![job_id] = Excepted("Failed to generate summary", [@ EXCEPT !.summary = None])]
    /\ UNCHANGED <<response, to_post, environ, notJobs>>

\* call_gemini_api returns None
SummaryFails(job_id) ==
    /\ job_id \in DOMAIN tasks
    /\ tasks[job_id].pc = "summary"
    /\ EventLoopFree
    /\ LET task == tasks[job_id]
           noted == Progress(jobs[job_id],
                             "Note: Summary generation failed, but transcript is ready")
       IN  /\ jobs' = Assign(jobs, job_id, Completing(noted))
           /\ tasks' = [tasks EXCEPT ![job_id] =
                           Resulting(Result(task.markdown.val, task.video_id.val,
                                            task.video_info),
                                     [task EXCEPT !.summary = None])]
    /\ UNCHANGED <<response, to_post, environ, notJobs>>

\* the except branch after its first assignment, to the end of the run
WriteError(job_id) ==
    /\ job_id \in DOMAIN tasks
    /\ tasks[job_id].pc = "except"
    /\ jobs' = Assign(jobs, job_id, Errored(jobs[job_id], tasks[job_id].e))
    /\ tasks' = [tasks EXCEPT ![job_id] = Ended(@)]
    /\ UNCHANGED <<response, to_post, environ, notJobs>>

\* the last assignment of the try block, to the end of the run
WriteResult(job_id) ==
    /\ job_id \in DOMAIN tasks
    /\ tasks[job_id].pc = "result"
    /\ jobs' = Assign(jobs, job_id, Completed(jobs[job_id], tasks[job_id].result))
    /\ tasks' = [tasks EXCEPT ![job_id] = Ended(@)]
    /\ UNCHANGED <<response, to_post, environ, notJobs>>

\* The run is one coroutine without an await, so the event loop runs it from
\* start to end; the steps below let the other handlers and runs in at its
\* blocking calls as well, which are more schedules than the event loop has,
\* and never between two assignments, where no coroutine can be suspended.
NextJobs ==
    \E job_id \in JobIds :
        \/ extract_transcript(job_id)
        \/ get_status(job_id)
        \/ BeginRun(job_id)
        \/ IdentifyVideo(job_id)
        \/ VideoInfoRaises(job_id)
        \/ VideoInfoReturns(job_id)
        \/ PayloadRaises(job_id)
        \/ PayloadReturns(job_id)
        \/ SummaryReturns(job_id)
        \/ SummaryFails(job_id)
        \/ WriteError(job_id)
        \/ WriteResult(job_id)

SpecJobs == InitJobs /\ [][NextJobs]_vars

SpecLongJob == InitLongJob /\ [][NextJobs]_vars


----------------------------------------------------------------------------
(* Claims about extract_video_id *)

\* the platform hosts of the supported shapes, the short-link host apart
PlatformHosts == FamilyHosts \ {<<"y", "o", "u", "t", "u", ".", "b", "e">>}

\* C1: every supported URL shape resolves to the identifier it carries: a
\* /watch URL (with or without further query parameters) to its v parameter,
\* a youtu.be URL (with or without a tracking query) to its first path
\* segment, an /embed/, /shorts/, /live/ or /v/ path to its second segment,
\* with www., m. or music. prefixes, a regional TLD and with the scheme left
\* out; a non-platform host, a /channel/ path and a non-URL string resolve to
\* no identifier.
C1_SupportedShapes ==
    r_pc = "done" =>
      /\ \A s \in Schemes, id \in Ids :
            /\ \A h \in FamilyHosts,
                  x \in {<<>>, <<"&", "l", "i", "s", "t", "=", "W", "L", "&", "i", "n", "d", "e", "x", "=", "1">>, <<"&", "l", "i", "s", "t", "=", ".", ".", ".">>} :
                  url = s \o h \o <<"/", "w", "a", "t", "c", "h", "?", "v", "=">> \o id \o x => video_id = Str(id)
            /\ \A q \in {<<>>, <<"?", "s", "i", "=", "a", "b", "c", "d", "e", "1", "2", "3", "4", "5">>} :
                  url = s \o <<"y", "o", "u", "t", "u", ".", "b", "e", "/">> \o id \o q => video_id = Str(id)
            /\ \A h \in PlatformHosts, e \in {<<"e", "m", "b", "e", "d">>, <<"s", "h", "o", "r", "t", "s">>, <<"l", "i", "v", "e">>, <<"v">>},
                  q \in {<<>>, <<"?", "f", "e", "a", "t", "u", "r", "e", "=", "s", "h", "a", "r", "e">>} :
                  url = s \o h \o <<"/">> \o e \o <<"/">> \o id \o q => video_id = Str(id)
      /\ \A s \in Schemes :
            /\ \A h \in {<<"w", "w", "w", ".", "g", "o", "o", "g", "l", "e", ".", "c", "o", "m">>, <<"e", "v", "i", "l", ".", "c", "o", "m">>} :
                  StartsWith(url, s \o h) => video_id = None
            /\ \A h \in PlatformHosts :
                  StartsWith(url, s \o h \o <<"/", "c", "h", "a", "n", "n", "e", "l", "/">>) => video_id = None
      /\ url = <<"n", "o", "t", " ", "a", " ", "u", "r", "l">> => video_id = None

C1_Witness ==
    /\ r_pc = "done"
    /\ url = <<"m", "u", "s", "i", "c", ".", "y", "o", "u", "t", "u", "b", "e", ".", "c", "o", "m", "/", "w", "a", "t", "c", "h", "?", "v", "=", "d", "Q", "w", "4", "w", "9", "W", "g", "X", "c", "Q", "&", "l", "i", "s", "t", "=", ".", ".", ".">>
    /\ video_id = Str(<<"d", "Q", "w", "4", "w", "9", "W", "g", "X", "c", "Q">>)

\* C2: an argument of exactly 11 characters over letters, digits, - and _
\* is returned unchanged.
C2_BareTokenVerbatim ==
    (r_pc = "done" /\ Len(url) = IdLen /\ \A i \in 1..Len(url) : url[i] \in IdChars)
        => video_id = Str(url)

C2_Witness ==
    r_pc = "done" /\ url = <<"o", "-", "Y", "B", "D", "T", "q", "X", "_", "Z", "U">> /\ video_id = Str(url)

\* a bare 11-character token
IsBareToken(s) == Len(s) = IdLen /\ \A i \in 1..Len(s) : s[i] \in IdChars

\* the host the resolver parses out of its argument
ParsedHost(u) ==
    Hostname(UrlParse(IF HasHttpScheme(u) THEN u ELSE <<"h", "t", "t", "p", ":", "/", "/">> \o u).netloc)

\* the platform's domain family: youtube.com or a regional youtube domain,
\* optionally under www., m. or music., or the short-link host
IsFamilyHost(h) ==
    \/ \E p \in HostPrefixes :
          LET stem == p \o <<"y", "o", "u", "t", "u", "b", "e", ".", "c", "o">>
              n == Len(stem)
          IN  /\ StartsWith(h, stem)
              /\ \/ From(h, n + 1) \in {<<"m">>, <<".", "u", "k">>, <<".", "j", "p">>, <<".", "d", "e">>}
                 \/ /\ Len(h) = n + 3
                    /\ h[n + 2] \in WordChars
                    /\ h[n + 3] \in WordChars
    \/ h = <<"y", "o", "u", "t", "u", ".", "b", "e">>

\* C3: for an argument that is no bare token, a parsed host outside the
\* platform's domain family resolves to no identifier, whatever the path and
\* the query are.
C3_ForeignHostRejected ==
    (r_pc = "done" /\ ~IsBareToken(url) /\ ~IsFamilyHost(ParsedHost(url)))
        => video_id.tag # "str"

\* C4: whatever is returned is no identifier or an 11-character token over
\* letters, digits, - and _, never an empty or malformed string.
C4_ReturnsTokenOrNone ==
    (r_pc = "done" /\ video_id.tag = "str") => IsBareToken(video_id.val)

----------------------------------------------------------------------------
(* Claims about the track selector and the format choice *)

\* the priority list the claim states for a detected language
PriorityOf(lang) ==
    IF lang = "ja" THEN <<"ja", "ja-JP", "en", "en-US", "en-GB">>
    ELSE <<"en", "en-US", "en-GB", "ja", "ja-JP">>

\* code p[i] is the first priority code that is a key of m
IsFirstKeyOf(m, p, i) ==
    /\ \E k \in 1..Len(m) : m[k].lang = p[i]
    /\ \A j \in 1..(i - 1) : \A k \in 1..Len(m) : m[k].lang # p[j]

\* no priority code is a key of m
NoPriorityKey(m, p) == \A i \in 1..Len(p) : \A k \in 1..Len(m) : m[k].lang # p[i]

\* the track m holds for key l
TrackOf(m, l) == m[CHOOSE k \in 1..Len(m) : m[k].lang = l].formats

\* C5: the selector returns the first existing entry of manual[p1..p5],
\* automatic[p1..p5]: the manual track of the first priority code that is a
\* manual key, whatever variant list it maps to and whatever the automatic
\* mapping holds, and the automatic track of the first priority code that is
\* an automatic key only when no priority code is a manual key.
C5_PriorityWalk ==
    (s_pc = "done" /\ info = "info") =>
        LET p == PriorityOf(detected_language)
        IN  \A i \in 1..Len(p) :
              /\ IsFirstKeyOf(subtitles, p, i)
                    => transcript_data = List(TrackOf(subtitles, p[i]))
              /\ (NoPriorityKey(subtitles, p) /\ IsFirstKeyOf(automatic_captions, p, i))
                    => transcript_data = List(TrackOf(automatic_captions, p[i]))

\* C6: when no priority code is a key of either mapping, the selector returns
\* the track of the first key of the manual mapping if that mapping is not
\* empty, otherwise the track of the first key of the automatic mapping, and
\* with both mappings empty it returns the info with None.
C6_AnyLanguageFallback ==
    (s_pc = "done" /\ info = "info"
        /\ NoPriorityKey(subtitles, PriorityOf(detected_language))
        /\ NoPriorityKey(automatic_captions, PriorityOf(detected_language))) =>
        /\ subtitles # <<>> => transcript_data = List(subtitles[1].formats)
        /\ (subtitles = <<>> /\ automatic_captions # <<>>)
              => transcript_data = List(automatic_captions[1].formats)
        /\ (subtitles = <<>> /\ automatic_captions = <<>>) => transcript_data = None

\* some variant of the list carries the tag
HasExt(items, e) == \E i \in 1..Len(items) : items[i].ext = e

\* C7: the format choice takes a json3 variant if there is one, otherwise a
\* vtt variant if there is one, otherwise an srv1 variant, in every order of
\* the list; no other tag is ever taken, and without any of the three tags
\* the step fails with 'no suitable format' and fetches nothing.
C7_FormatPreference ==
    d_pc \in {"fetch", "parse", "done"} =>
        LET items == dl_transcript_data
        IN  /\ HasExt(items, "json3") => best_format.ext = "json3"
            /\ (~HasExt(items, "json3") /\ HasExt(items, "vtt"))
                  => best_format.ext = "vtt"
            /\ (~HasExt(items, "json3") /\ ~HasExt(items, "vtt") /\ HasExt(items, "srv1"))
                  => best_format.ext = "srv1"
            /\ best_format.ext \in {"json3", "vtt", "srv1", "None"}
            /\ (~HasExt(items, "json3") /\ ~HasExt(items, "vtt") /\ ~HasExt(items, "srv1"))
                  => /\ best_format = NoFormat
                     /\ d_pc = "done"
                     /\ dl_result = None
                     /\ printed = "No suitable transcript format found"
                     /\ fetches = 0

----------------------------------------------------------------------------
(* Claims about the paragraph builder and the cleanup *)

\* the texts of the paragraph lines of a document
ParagraphTexts(doc) ==
    LET paras == SelectSeq(doc, LAMBDA l : l.kind = "para")
    IN  [i \in 1..Len(paras) |-> paras[i].text]

\* the texts of the cues of a transcript
TextsOf(cues) == [i \in 1..Len(cues) |-> cues[i].text]

\* C8: after appending a cue the paragraph is closed exactly when the cue's
\* cleaned text ends with one of . ! ? or their full-width forms, or the
\* accumulator (the cue texts, each followed by one space) is longer than 500
\* characters, and otherwise the accumulation goes on; the cues "Hello ",
\* "world. ", "Next sentence." give exactly the paragraphs "Hello world." and
\* "Next sentence.".
C8_ParagraphClosing ==
    [][/\ (m_pc = "loop" /\ entry' = entry + 1) =>
            LET trimmed == Strip(transcript[entry].text)
                t == IF is_japanese THEN clean_japanese_text(trimmed) ELSE trimmed
                acc == current_paragraph \o t \o <<" ">>
            IN  t # <<>> =>
                  IF \/ t[Len(t)] \in {".", "!", "?", "U3002", "UFF01", "UFF1F"}
                     \/ Len(acc) > 500
                  THEN /\ Len(markdown') = Len(markdown) + 1
                       /\ markdown'[Len(markdown')].kind = "para"
                       /\ SubSeq(markdown', 1, Len(markdown)) = markdown
                       /\ current_paragraph' = <<>>
                       /\ current_start_time' = NoTime
                  ELSE /\ markdown' = markdown
                       /\ current_paragraph' = acc
       /\ (m_pc' = "done" /\ TextsOf(transcript) = <<<<"H", "e", "l", "l", "o", " ">>, <<"w", "o", "r", "l", "d", ".", " ">>, <<"N", "e", "x", "t", " ", "s", "e", "n", "t", "e", "n", "c", "e", ".">>>>)
            => ParagraphTexts(markdown') = <<<<"H", "e", "l", "l", "o", " ", "w", "o", "r", "l", "d", ".">>, <<"N", "e", "x", "t", " ", "s", "e", "n", "t", "e", "n", "c", "e", ".">>>>
      ]_vars

C8_Witness ==
    /\ m_pc = "done"
    /\ TextsOf(transcript) = <<<<"H", "e", "l", "l", "o", " ">>, <<"w", "o", "r", "l", "d", ".", " ">>, <<"N", "e", "x", "t", " ", "s", "e", "n", "t", "e", "n", "c", "e", ".">>>>
    /\ ParagraphTexts(markdown) = <<<<"H", "e", "l", "l", "o", " ", "w", "o", "r", "l", "d", ".">>, <<"N", "e", "x", "t", " ", "s", "e", "n", "t", "e", "n", "c", "e", ".">>>>

\* C9: clean_japanese_text is idempotent: cleaning a cleaned text changes
\* nothing.
C9_CleanIdempotent == c_pc = "twice" => cleaned_again = cleaned

\* C10: a returned document without a paragraph line holds the line
\* '*No transcript available for this video.*', also when the cue sequence
\* is not empty and every cue is skipped.
C10_MarkerWithoutParagraphs ==
    (m_pc = "done" /\ ParagraphTexts(markdown) = <<>>)
        => \E i \in 1..Len(markdown) :
              /\ markdown[i].kind = "marker"
              /\ markdown[i].text = <<"*", "N", "o", " ", "t", "r", "a", "n", "s", "c", "r", "i", "p", "t", " ", "a", "v", "a", "i", "l", "a", "b", "l", "e", " ", "f", "o", "r", " ", "t", "h", "i", "s", " ", "v", "i", "d", "e", "o", ".", "*">>
----------------------------------------------------------------------------
(* C11.  A track that is fetched and decoded without error but yields no    *)
(* cue does not end the request in error: the job completes with a document *)
(* that carries the no-transcript line.                                     *)

\* the run of job_id is over
RunOver(job_id) == job_id \in DOMAIN tasks /\ tasks[job_id].pc = "done"

\* the decoder returned a list without a cue
DecodedNoCues(job_id) == tasks[job_id].transcript = List(<<>>)

C11_EmptyTranscriptRendered ==
    \A job_id \in JobIds :
        (RunOver(job_id) /\ DecodedNoCues(job_id))
            => /\ jobs[job_id].status = "completed"
               /\ IsSubstring(NoTranscriptLine.text, jobs[job_id].result.transcript)

----------------------------------------------------------------------------
(* C12.  The caller of the download step can tell its outcomes apart: of    *)
(* two runs that left the step for different reasons (no suitable format, a *)
(* fetch failure, a decode failure, a decoded list) the values returned     *)
(* differ, and the final error of a fetch failure differs from that of a    *)
(* decode failure.                                                          *)

\* the reason the download step of the run ended for, as the step prints it
DownloadOutcome(job_id) == tasks[job_id].printed

\* the download step of the run has returned
DownloadReturned(job_id) == RunOver(job_id) /\ tasks[job_id].transcript # NotReturned

C12_DistinguishableFailures ==
    \A a, b \in JobIds :
        (DownloadReturned(a) /\ DownloadReturned(b)
         /\ DownloadOutcome(a) # DownloadOutcome(b))
            => /\ tasks[a].transcript # tasks[b].transcript
               /\ (/\ DownloadOutcome(a) = "Error downloading transcript"
                   /\ DownloadOutcome(b) = "Error parsing transcript")
                      => jobs[a].error # jobs[b].error

----------------------------------------------------------------------------
(* C13.  A run fetches at most one caption payload, that of the format      *)
(* chosen beforehand, and calls at most one decoder, that of this format;   *)
(* after a fetch failure or a decode failure the run is over, in error,     *)
(* with that one fetch made.                                                *)

C13_OneFetchNoFallback ==
    \A job_id \in DOMAIN tasks :
        LET task == tasks[job_id]
        IN  /\ Len(task.fetched) <= 1
            /\ Len(task.decoders) <= 1
            /\ \A i \in 1..Len(task.fetched) : task.fetched[i] = task.best_format.url
            /\ \A i \in 1..Len(task.decoders) :
                  task.decoders[i] = DecoderFor(task.best_format.ext)
            /\ task.printed \in {"Error downloading transcript", "Error parsing transcript"}
                  => /\ task.pc \in {"except", "done"}
                     /\ jobs[job_id].status = "error"
                     /\ Len(task.fetched) = 1

\* a fetch failed and a decode failed for tracks that list a second format
C13_Witness ==
    \E a, b \in DOMAIN tasks :
        /\ tasks[a].printed = "Error downloading transcript"
        /\ tasks[b].printed = "Error parsing transcript"
        /\ Len(tasks[a].transcript_data.val) > 1
        /\ Len(tasks[b].transcript_data.val) > 1

----------------------------------------------------------------------------
(* C14.  The text handed to the summary call is the document when the       *)
(* document has at most 50,000 characters, and else its first 50,000        *)
(* characters followed by the truncation marker.                            *)

\* the marker main.py appends to a truncated document
TruncationMarker == <<".", ".", ".", " ", "[", "t", "r", "a", "n", "s", "c", "r", "i", "p", "t", " ", "t", "r", "u", "n", "c", "a", "t", "e", "d", " ", "f", "o", "r", " ", "s", "u", "m", "m", "a", "r", "i", "z", "a", "t", "i", "o", "n", "]">>

C14_TruncationMarked ==
    \A job_id \in DOMAIN tasks :
        tasks[job_id].text_to_summarize.tag = "str"
            => LET document == tasks[job_id].markdown.val
                   handed == tasks[job_id].text_to_summarize.val
               IN  IF Len(document) > 50000
                   THEN handed = SubSeq(document, 1, 50000) \o TruncationMarker
                   ELSE handed = document

----------------------------------------------------------------------------
(* C15.  When the document is rendered and call_gemini_api returns no       *)
(* summary, the job ends completed, its result holds the transcript and no  *)
(* summary, and its error stays unset.                                      *)

\* the summary call of the run returned None
SummaryFailed(job_id) ==
    RunOver(job_id) /\ tasks[job_id].summary \in {None, Str(<<>>)}

C15_SummaryFailureKeepsTranscript ==
    \A job_id \in JobIds :
        SummaryFailed(job_id)
            => /\ jobs[job_id].status = "completed"
               /\ jobs[job_id].result # None
               /\ jobs[job_id].result.transcript = tasks[job_id].markdown.val
               /\ jobs[job_id].result.summary = Absent
               /\ jobs[job_id].error = None

C15_Witness == \E job_id \in JobIds : SummaryFailed(job_id)

----------------------------------------------------------------------------
(* C16.  Every step of the run of a job leaves the record and the run of    *)
(* every other job as they are, whatever the other runs and the polls do in *)
(* between.                                                                 *)

\* a step of process_transcript(job_id, ...)
RunStep(job_id) ==
    \/ BeginRun(job_id)
    \/ IdentifyVideo(job_id)
    \/ VideoInfoRaises(job_id)
    \/ VideoInfoReturns(job_id)
    \/ PayloadRaises(job_id)
    \/ PayloadReturns(job_id)
    \/ SummaryReturns(job_id)
    \/ SummaryFails(job_id)
    \/ WriteError(job_id)
    \/ WriteResult(job_id)

C16_JobsIndependent ==
    [][\A a \in JobIds :
          RunStep(a) => \A b \in DOMAIN jobs \ {a} :
                            /\ b \in DOMAIN jobs'
                            /\ jobs'[b] = jobs[b]
                            /\ tasks'[b] = tasks[b]]_vars

\* two runs are under way at once, one at its summary call and one at its fetch
C16_Witness ==
    \E a, b \in DOMAIN tasks :
        /\ a # b
        /\ tasks[a].pc = "summary" /\ jobs[a].status = "processing"
        /\ tasks[b].pc = "fetch" /\ jobs[b].status = "processing"

----------------------------------------------------------------------------
(* C17.  parse_json3_transcript, called on an object whose tStartMs and     *)
(* dDurationMs entries are numbers where they are present, returns a list;  *)
(* whenever it returns a list, the list holds, in event order, exactly one  *)
(* cue for each event that has a segment list whose joined texts are not    *)
(* empty once trimmed, with that trimmed text, start tStartMs / 1000 and    *)
(* duration dDurationMs / 1000, each 0 when absent.  The event with segs    *)
(* "Hello " and "world." and tStartMs 1000 gives "Hello world." at 1.0.     *)

\* the decoder named has returned
Returned(name) == x_pc = "done" /\ decoder_called = name

\* the texts of the segments of an event, joined and trimmed
TrimmedSegText(event) ==
    Strip(Concat([k \in 1..Len(event.segs.val) |->
                     IF event.segs.val[k].utf8.tag = "str"
                     THEN event.segs.val[k].utf8.val ELSE <<>>]))

\* the event has a segment list with a text
ContributesCue(event) == event.segs.tag = "list" /\ TrimmedSegText(event) # <<>>

\* a number of milliseconds, 0 when the entry is not there
MsOrZero(v) == IF v.tag = "absent" THEN 0 ELSE v.val[1]

\* the times of every event are numbers where they are there
NumericTimes(events) ==
    \A k \in 1..Len(events) :
        /\ events[k].tStartMs.tag \in {"num", "absent"}
        /\ events[k].dDurationMs.tag \in {"num", "absent"}

\* the cues the events stand for
EventCues(events) ==
    LET contributing == SelectSeq(events, ContributesCue)
    IN  [k \in 1..Len(contributing) |->
            [text |-> TrimmedSegText(contributing[k]),
             start |-> MsOrZero(contributing[k].tStartMs),
             duration |-> MsOrZero(contributing[k].dDurationMs)]]

\* the documented event
HelloWorldEvent ==
    [segs |-> List(<<[utf8 |-> Str(<<"H", "e", "l", "l", "o", " ">>)], [utf8 |-> Str(<<"w", "o", "r", "l", "d", ".">>)]>>),
     tStartMs |-> Num(1000), dDurationMs |-> Absent]

C17_Json3Cues ==
    (Returned("parse_json3_transcript") /\ content.tag = "object")
        => /\ NumericTimes(content.val) => decoded.tag = "list"
           /\ decoded.tag = "list" => decoded.val = EventCues(content.val)
           /\ content.val = <<HelloWorldEvent>>
                 => decoded.val = <<[text |-> <<"H", "e", "l", "l", "o", " ", "w", "o", "r", "l", "d", ".">>, start |-> 1000,
                                     duration |-> 0]>>

\* the documented event was decoded next to an event without a segment list
C17_Witness ==
    /\ Returned("parse_json3_transcript")
    /\ content.tag = "object"
    /\ Len(content.val) = 2
    /\ content.val[1] = HelloWorldEvent
    /\ content.val[2].segs = Absent
    /\ content.val[2].tStartMs = Num(1000)
    /\ decoded = List(<<[text |-> <<"H", "e", "l", "l", "o", " ", "w", "o", "r", "l", "d", ".">>, start |-> 1000, duration |-> 0]>>)

----------------------------------------------------------------------------
(* C18.  parse_vtt_transcript and the lines of its payload.                 *)

\* the lines of the payload
ContentLines == Split(content, "\n")

HasArrow(line) == IsSubstring(Arrow, line)

Blank(line) == Strip(line) = <<>>

\* the place of the next blank line at or after i, one past the end if none
NextBlank(lines, i) ==
    Least({k \in i..(Len(lines) + 1) : k = Len(lines) + 1 \/ Blank(lines[k])})

\* the following non-blank lines up to the next blank line, joined with
\* single spaces, with the tags removed
FollowingText(lines, i) ==
    StripVttTags(JoinWithSpace([k \in 1..(NextBlank(lines, i + 1) - i - 1) |->
                                   Strip(lines[i + k])]))

\* what stands left of the arrow
LeftTimestamp(line) == Strip(BeforeSeparator(Strip(line), Arrow))

\* the colon-separated components before the fraction
Components(timestamp) == Split(Split(timestamp, ".")[1], ":")

\* the timestamp is H:MM:SS.mmm or MM:SS.mmm
ClockForm(timestamp) ==
    /\ IndexOf(timestamp, ".", 1) > 0
    /\ Len(Components(timestamp)) \in {2, 3}
    /\ \A k \in 1..Len(Components(timestamp)) :
          /\ Components(timestamp)[k] # <<>>
          /\ \A j \in 1..Len(Components(timestamp)[k]) :
                Components(timestamp)[k][j] \in Digits

\* H*3600 + MM*60 + SS, or MM*60 + SS
WholeSeconds(timestamp) ==
    LET c == Components(timestamp)
    IN  IF Len(c) = 3
        THEN DigitsValue(c[1]) * 3600 + DigitsValue(c[2]) * 60 + DigitsValue(c[3])
        ELSE DigitsValue(c[1]) * 60 + DigitsValue(c[2])

\* the list returned holds, in order, one cue for each of the lines at the
\* places given, with the start, text and duration of the line
CuesOfLines(lines, places) ==
    /\ decoded.tag = "list"
    /\ Len(decoded.val) = Cardinality(places)
    /\ \A i \in places :
          LET cue == decoded.val[Cardinality({j \in places : j <= i})]
          IN  /\ cue.text = FollowingText(lines, i)
              /\ cue.duration = 0
              /\ ClockForm(LeftTimestamp(lines[i]))
                    => cue.start = 1000 * WholeSeconds(LeftTimestamp(lines[i]))

\* every pass of the scan moves on by at least one line
ScanAdvances(lines) == \A i \in 1..Len(lines) : AfterPass(lines, i) > i

TimingLine(lines, i) ==
    /\ HasArrow(lines[i])
    /\ \A j \in 1..(i - 1) :
          (\A k \in j..i : ~Blank(lines[k])) => ~HasArrow(lines[j])

----------------------------------------------------------------------------
(* C19.  A payload in which a numeric field of a cue cannot be parsed makes *)
(* the decoder return no cue at all: a tStartMs or dDurationMs that is no   *)
(* number in json3, a timestamp component that is no number in vtt, a start *)
(* or dur that is no number in srv1.                                        *)

\* an event that has a text and a time that is no number
Json3FieldUnparseable ==
    /\ content.tag = "object"
    /\ \E k \in 1..Len(content.val) :
          /\ ContributesCue(content.val[k])
          /\ \/ content.val[k].tStartMs.tag = "str"
             \/ content.val[k].dDurationMs.tag = "str"

\* a component is no number
NotNumeric(timestamp) ==
    \E k \in 1..Len(Components(timestamp)) :
        \/ Components(timestamp)[k] = <<>>
        \/ \E j \in 1..Len(Components(timestamp)[k]) :
              Components(timestamp)[k][j] \notin Digits

\* a timing line that has a text and, left of a spaced arrow, a timestamp
\* with a component that is no number
VttFieldUnparseable ==
    \E i \in 1..Len(ContentLines) :
        /\ TimingLine(ContentLines, i)
        /\ FollowingText(ContentLines, i) # <<>>
        /\ IsSubstring(SpacedArrow, ContentLines[i])
        /\ NotNumeric(LeftTimestamp(ContentLines[i]))

\* a text element that has a text and a start or dur that is no number
Srv1FieldUnparseable ==
    /\ content.tag = "document"
    /\ \E k \in 1..Len(content.val) :
          /\ content.val[k].text.tag = "str"
          /\ Strip(content.val[k].text.val) # <<>>
          /\ \/ content.val[k].start = Str(<<"a", "b", "c">>)
             \/ content.val[k].dur = Str(<<"1", "s">>)

C19_UnparseableFieldNoCues ==
    /\ (Returned("parse_json3_transcript") /\ Json3FieldUnparseable) => ~Truthy(decoded)
    /\ (Returned("parse_vtt_transcript") /\ VttFieldUnparseable) => ~Truthy(decoded)
    /\ (Returned("parse_srv1_transcript") /\ Srv1FieldUnparseable) => ~Truthy(decoded)

----------------------------------------------------------------------------
(* C20.  Every cue of a list a decoder returns has a text that is not empty *)
(* and is its own trimmed form.                                             *)

C20_CueTextTrimmedNonEmpty ==
    (x_pc = "done" /\ decoded.tag = "list")
        => \A k \in 1..Len(decoded.val) :
              /\ decoded.val[k].text # <<>>
              /\ decoded.val[k].text = Strip(decoded.val[k].text)

----------------------------------------------------------------------------
(* C21.  Every paragraph line of the document, closed inside the cue loop   *)
(* or written after it, with or without timestamps, has a text that is not  *)
(* empty.                                                                   *)

C21_ParagraphTextNonEmpty ==
    \A i \in 1..Len(markdown) : markdown[i].kind = "para" => markdown[i].text # <<>>

----------------------------------------------------------------------------
(* C22.  The timestamp of every paragraph line is the whole seconds t of    *)
(* the start of one of the cues, written H:MM:SS with H = t \div 3600       *)
(* unpadded and MM, SS in two digits, also for t of 86,400 or more.         *)

\* H:MM:SS of a whole number of seconds
HoursMinutesSeconds(t) ==
    IntToStr(t \div 3600) \o <<":">> \o TwoDigits((t % 3600) \div 60)
    \o <<":">> \o TwoDigits(t % 60)

C22_TimestampHoursMinutesSeconds ==
    \A i \in 1..Len(markdown) :
        (markdown[i].kind = "para" /\ markdown[i].stamp # <<>>)
            => \E k \in 1..Len(transcript) :
                  markdown[i].stamp = HoursMinutesSeconds(transcript[k].start \div 1000)

----------------------------------------------------------------------------
(* C24.  What clean_japanese_text returns holds none of the music and sound *)
(* tokens.                                                                  *)

C24_NoMusicTokenLeft ==
    c_pc # "call" => \A i \in 1..Len(MusicTags) : ~IsSubstring(MusicTags[i], cleaned)

----------------------------------------------------------------------------
(* C25.  What clean_japanese_text returns holds no whitespace directly      *)
(* between two characters of the hiragana, katakana or ideograph ranges.    *)

C25_NoSpaceInsideScript ==
    c_pc # "call"
        => \A i \in 2..(Len(cleaned) - 1) :
              cleaned[i] \in Whitespace
                  => ~(IsJapaneseChar(cleaned[i - 1]) /\ IsJapaneseChar(cleaned[i + 1]))

----------------------------------------------------------------------------
(* C26.  The language that orders the priority list of the track selector   *)
(* is the language transcript_to_markdown decides the cleanup by: the       *)
(* renderer detects it from the title of the same video (line 240).         *)

C26_OneDetectedLanguage ==
    s_pc = "done" /\ info = "info"
        => (detected_language = "ja") = (detect_video_language(title, <<>>) = "ja")

----------------------------------------------------------------------------
(* C27.  extract_video_id returns for every argument and never raises.      *)

C27_ResolverTotal == r_pc = "done" => video_id.tag # "raise"

----------------------------------------------------------------------------
(* C23.  The anchor of a paragraph is the start of the first cue appended   *)
(* to it: a pass that skips its cue leaves the anchor as it is, a pass that *)
(* appends a cue sets the anchor only when none is set, a close writes the  *)
(* timestamp of the anchor and resets it, and the paragraph written after   *)
(* the loop carries the timestamp of the anchor; with timestamps asked for, *)
(* every paragraph line has one.                                            *)

\* the text the pass over the cue at entry appends, empty when it skips
AppendedText ==
    LET trimmed == Strip(transcript[entry].text)
    IN  IF is_japanese /\ trimmed # <<>> THEN clean_japanese_text(trimmed) ELSE trimmed

\* the paragraph line the step has written, if it has written one
Written == markdown'[Len(markdown')]

C23_AnchorIsFirstMergedCue ==
    [][/\ (m_pc = "loop" /\ entry' = entry + 1 /\ AppendedText = <<>>)
            => current_start_time' = current_start_time /\ markdown' = markdown
       /\ (m_pc = "loop" /\ entry' = entry + 1 /\ AppendedText # <<>>)
            => LET first == IF current_start_time = NoTime
                            THEN transcript[entry].start ELSE current_start_time
               IN  IF markdown' = markdown
                   THEN current_start_time' = first
                   ELSE /\ current_start_time' = NoTime
                        /\ Written.stamp = IF include_timestamps
                                           THEN format_timestamp(first) ELSE <<>>
       /\ (m_pc = "loop" /\ m_pc' = "done" /\ markdown' # markdown)
            => /\ current_start_time # NoTime
               /\ Written.stamp = IF include_timestamps
                                  THEN format_timestamp(current_start_time) ELSE <<>>
       /\ (m_pc = "loop" /\ current_paragraph # <<>>) => current_start_time # NoTime
       /\ include_timestamps
            => \A i \in 1..Len(markdown') :
                  markdown'[i].kind = "para" => markdown'[i].stamp # <<>>
      ]_vars

\* a blank cue was skipped and the two cues after it were merged into one
\* paragraph at the start of the first of the two
C23_Witness ==
    /\ m_pc = "done"
    /\ include_timestamps
    /\ TextsOf(transcript) = SkippedThenMerged
    /\ transcript[1].start # transcript[2].start
    /\ transcript[3].start # transcript[2].start
    /\ markdown[Len(markdown)].kind = "para"
    /\ markdown[Len(markdown)].text = <<"H", "e", "l", "l", "o", " ", "w", "o", "r", "l", "d", ".">>
    /\ markdown[Len(markdown)].stamp = <<"1", ":", "0", "2", ":", "0", "5">>
    /\ format_timestamp(transcript[2].start) = <<"1", ":", "0", "2", ":", "0", "5">>

----------------------------------------------------------------------------
(* C28.  The status of a job record goes pending, processing, completed or  *)
(* pending, processing, error and no other way; result is set only on the   *)
(* completed path and error only on the error path.                         *)

\* completed and error
Terminal == {"completed", "error"}

\* the steps the status of a record takes, and the record that is made
StatusPath(j) ==
    /\ j \in DOMAIN jobs'
    /\ jobs'[j].status # jobs[j].status
          => <<jobs[j].status, jobs'[j].status>>
                 \in {<<"pending", "processing">>, <<"processing", "completed">>,
                      <<"processing", "error">>}
    /\ jobs[j].result # None => jobs[j].status = "completed" /\ jobs[j].error = None
    /\ jobs[j].error # None => jobs[j].status = "error" /\ jobs[j].result = None
    /\ jobs'[j].result # jobs[j].result => jobs'[j].status = "completed"
    /\ jobs'[j].error # jobs[j].error => jobs'[j].status = "error"

\* the record a request makes
MadePending ==
    \A j \in DOMAIN jobs' \ DOMAIN jobs :
        jobs'[j].status = "pending" /\ jobs'[j].result = None /\ jobs'[j].error = None

----------------------------------------------------------------------------
(* C29.  Whatever GET /api/status/{job_id} answers for a job, a status      *)
(* completed comes with the result and a status error with the error, also *)
(* for polls taken while runs are under way.                                *)

C29_PollSeesResultWithCompleted ==
    response.tag = "200"
        => /\ response.val.status = "completed" => response.val.result # None
           /\ response.val.status = "error" => response.val.error # None

\* a poll answered completed with the result while another run is under way
C29_Witness ==
    /\ response.tag = "200"
    /\ response.val.status = "completed"
    /\ response.val.result # None
    /\ \E j \in DOMAIN tasks : tasks[j].pc \in {"video", "fetch", "summary"}

----------------------------------------------------------------------------
(* C30.  With every run taken up again by the event loop and every external *)
(* call returning or raising, every job that was made reaches completed or  *)
(* error; a run that raised ends in error; a record is never removed and a  *)
(* poll for it is never answered 404.                                       *)

\* the requests of the client that posts second
ConcurrentRequests ==
    {TranscriptRequest(u, TRUE, TRUE) : u \in {<<"c", "a", "t", "s">>, <<"d", "Q", "w", "4", "w", "9", "W", "g", "X", "c", "Q">>}}

\* the event loop takes up every run that can go on
FairRuns == \A j \in JobIds : WF_vars(RunStep(j))

\* two clients: one with any request, one with a request that has no
\* identifier or one for a video with captions
InitFairJobs ==
    /\ to_post \in {<<first, second>> : first \in Requests, second \in ConcurrentRequests}
    /\ environ = Str(<<"k">>)
    /\ InitRuns

SpecFairJobs == InitFairJobs /\ [][NextJobs]_vars /\ FairRuns

\* the job has its record and the status of it is completed or error
Settled(j) == j \in DOMAIN jobs /\ jobs[j].status \in Terminal

\* the run of the job has raised
Raising(j) == j \in DOMAIN tasks /\ tasks[j].e # "None"

C30_EveryJobSettles ==
    /\ \A j \in JobIds : (j \in DOMAIN jobs) ~> Settled(j)
    /\ \A j \in JobIds : Raising(j) ~> (Raising(j) /\ tasks[j].pc = "done" /\ jobs[j].status = "error")
    /\ [][\A j \in DOMAIN jobs :
             /\ j \in DOMAIN jobs'
             /\ get_status(j) => response'.tag = "200" /\ response'.val = jobs[j]
         ]_vars

\* the runs of a request without an identifier and of one for a video without
\* captions are over in error, and a poll was answered with such a record
C30_Witness ==
    /\ \E a, b \in DOMAIN jobs :
          /\ tasks[a].pc = "done" /\ tasks[a].e = "Invalid YouTube URL or video ID"
          /\ tasks[b].pc = "done" /\ tasks[b].e = "No transcript available for this video"
          /\ jobs[a].status = "error" /\ jobs[b].status = "error"
    /\ response.tag = "200"
    /\ response.val.status = "error"


====
